---- MODULE Spec2Model ----
(***************************************************************************)
(* A model of dhcplb: the two balancing algorithms (lib/modulo.go,         *)
(* lib/rr.go), the LRU/token-bucket throttle (lib/throttle.go), the        *)
(* egress path that sends a packet to the selected server, the overrides   *)
(* and the connection loop (lib/handler.go), the server list updater       *)
(* (lib/update_servers.go), the config swap (server.go) and the DHCPv6     *)
(* and DHCPv4 packets that are relayed.  Go slices are 0-indexed, TLA+     *)
(* sequences 1-indexed: list[i] in the source is list[i + 1] here.         *)
(***************************************************************************)
EXTENDS Integers, Sequences, FiniteSets, TLC

VARIABLES
    alg,        \* Config.Algorithm: "xid" (modulo) or "rr" (roundRobin)
    bal,        \* the balancer struct: stable, rc, rcRatio and the rr cursors
    lock,       \* the balancer's sync.RWMutex: writer and set of readers
    pc,         \* where each goroutine stands in its balancer call
    call,       \* the locals and the results of each goroutine's call
    ncalls,     \* history: rr ratio selections started since the last list update
    thr,        \* the Throttle: throttleImpl (LRU of limiters, cache limiter) or dummy
    now,        \* the clock, in ticks
    thrRet,     \* what the last Throttle.OK call returned, and for which key
    okHist,     \* history: time and kind of every OK = true result for WatchedKey
    admitted,   \* history: the keys ever added to the LRU
    nOK,        \* history: number of OK calls made
    spc,        \* where each goroutine stands in sendToServer
    req,        \* the packet each goroutine is sending: server, throttle answer, outcome
    diff,       \* a call of diffServersList: its arguments and results
    ovr,        \* a call of selectDestinationServer: config, message, clock and result
    serverImpl, \* the server: the published config, stableServers, rcServers
    algorithms, \* the lists held by the Algorithm of each config ever loaded
    updater,    \* updateServersContinuous: position, its config and the sourced lists
    setConfig,  \* SetConfig: position and the config being published
    selection,  \* history: what the last selection saw
    process,    \* the dhcplb process: running, or crashed by an unrecovered panic
    listener,   \* ListenAndServe / handleConnection: position, buffer, logger, algorithm
    bufPool,    \* who holds each buffer: the pool, the listener or a worker
    handlers,   \* the goroutines handleConnection starts, one per datagram
    records,    \* the error records given to the PersonalizedLogger, by kind
    pkt6,       \* a Packet6, the peer it came from, and what Encapsulate and Unwind gave
    pkt4,       \* a DHCPv4 packet as received and as forwarded by handleRawPacketV4
    sockets,    \* the backend servers of a pool, the UDP sockets open to them, the timers
    raw,        \* a datagram in handleRawPacketV4 / V6: position, and what was done with it
    fsrc,       \* a FileSourcer, the host-list file it reads and the servers it returns
    dsrv        \* one DHCPServer: its conn, the sockets dialed for it, its close timer, a sendTo

balVars == <<alg, bal, lock, pc, call, ncalls>>
thrVars == <<thr, now, thrRet, okHist, admitted, nOK>>
sendVars == <<spc, req>>
diffVars == <<diff>>
ovrVars == <<ovr>>
cfgVars == <<serverImpl, algorithms, updater, setConfig, selection>>
connVars == <<process, listener, bufPool, handlers, records>>
pktVars == <<pkt6, pkt4>>
sockVars == <<sockets>>
rawVars == <<raw>>
fsrcVars == <<fsrc>>
dsrvVars == <<dsrv>>

\* the variables of the balancers, the throttle and sendToServer
coreVars == <<balVars, thrVars, sendVars>>
\* the variables of the other parts of the program
otherVars == <<diffVars, ovrVars, cfgVars, connVars, pktVars, sockVars, rawVars, fsrcVars, dsrvVars>>
\* what a step of diffServersList leaves alone
exceptDiff == <<coreVars, ovrVars, cfgVars, connVars, pktVars, sockVars, rawVars, fsrcVars, dsrvVars>>
\* what a step of selectDestinationServer leaves alone
exceptOvr == <<coreVars, diffVars, cfgVars, connVars, pktVars, sockVars, rawVars, fsrcVars, dsrvVars>>
\* what a step of the config swap and the list updates leaves alone
exceptCfg == <<coreVars, diffVars, ovrVars, connVars, pktVars, sockVars, rawVars, fsrcVars, dsrvVars>>
\* what a step of handleConnection leaves alone
exceptConn == <<coreVars, diffVars, ovrVars, cfgVars, pktVars, sockVars, rawVars, fsrcVars, dsrvVars>>
\* what a step on a packet leaves alone
exceptPkt == <<coreVars, diffVars, ovrVars, cfgVars, connVars, sockVars, rawVars, fsrcVars, dsrvVars>>
\* what a step on the backend sockets leaves alone
exceptSock == <<coreVars, diffVars, ovrVars, cfgVars, connVars, pktVars, rawVars, fsrcVars, dsrvVars>>
\* what a step of handleRawPacketV4 / V6 leaves alone
exceptRaw == <<coreVars, diffVars, ovrVars, cfgVars, connVars, pktVars, sockVars, fsrcVars, dsrvVars>>
\* what a step of the FileSourcer leaves alone
exceptFsrc == <<coreVars, diffVars, ovrVars, cfgVars, connVars, pktVars, sockVars, rawVars, dsrvVars>>
\* what a step on the DHCPServer leaves alone
exceptDsrv == <<coreVars, diffVars, ovrVars, cfgVars, connVars, pktVars, sockVars, rawVars, fsrcVars>>

vars == <<alg, bal, lock, pc, call, ncalls, thr, now, thrRet, okHist, admitted, nOK, spc, req,
          diff, ovr, serverImpl, algorithms, updater, setConfig, selection,
          process, listener, bufPool, handlers, records, pkt6, pkt4,
          sockets, raw, fsrc, dsrv>>

----------------------------------------------------------------------------
(* Bounds *)

\* most sendTo calls on one DHCPServer
MaxSends == 2
\* longest stable server list
MaxStable == 4
\* longest rc server list
MaxRC == 2
\* most ratio selections between two list updates
MaxSel == 3
\* clock ticks per second
TicksPerSec == 2
\* last tick of the clock
MaxTime == 3
\* most Throttle.OK calls in a run of the throttle
MaxOK == 5
\* longest server list given to diffServersList
MaxDiffLen == 2
\* most configs loaded after the first one
MaxConfigs == 2
\* most datagram reads of the listener
MaxReads == 3
\* longest server list handed to handleUpdatedList
MaxSockLen == 2
\* sockets ever opened to backend servers
MaxConns == 4
\* lines of a host-list file
MaxFileLines == 2

----------------------------------------------------------------------------
(* hash/fnv New32a, Write, Sum32 as used by the balancers.  A 32-bit hash  *)
(* is kept as <<high 16 bits, low 16 bits>>.                               *)

Limb == 256 * 256

RECURSIVE XorBits(_, _, _)
XorBits(a, b, n) ==
    IF n = 0 THEN 0
    ELSE (((a % 2) + (b % 2)) % 2) + 2 * XorBits(a \div 2, b \div 2, n - 1)

\* offset basis 0x811C9DC5
FnvOffsetBasis == <<33052, 40389>>

\* hash ^= byte
FnvXor(h, b) == <<h[1], ((h[2] \div 256) * 256) + XorBits(h[2] % 256, b, 8)>>

\* hash *= 16777619 (0x01000193 = 2^24 + 403), modulo 2^32
FnvMul(h) ==
    LET p == h[2] * 403
    IN  <<((h[1] * 403) + (p \div Limb) + ((h[2] % 256) * 256)) % Limb, p % Limb>>

RECURSIVE FnvFold(_, _, _)
FnvFold(h, bytes, i) ==
    IF i > Len(bytes) THEN h
    ELSE FnvFold(FnvMul(FnvXor(h, bytes[i])), bytes, i + 1)

Fnv32a(bytes) == FnvFold(FnvOffsetBasis, bytes, 1)

\* hash % n for a 32-bit hash and a small positive n
HashMod(h, n) == (((h[1] % n) * (Limb % n)) + h[2]) % n

----------------------------------------------------------------------------
(* Servers, lists and messages *)

\* *DHCPServer: identified by address and port
Srv(a, p) == [Address |-> a, Port |-> p]

\* the nil *DHCPServer
NilServer == Srv(0, 0)

\* stable hosts are 1..MaxStable, rc hosts follow them
Ascending(n) == [i \in 1..n |-> Srv(i, i - 1)]
Descending(n) == [i \in 1..n |-> Srv(n + 1 - i, n - i)]
RCList(n) == [i \in 1..n |-> Srv(MaxStable + i, i - 1)]

StableLists == {<<>>, Ascending(MaxStable - 1), Ascending(MaxStable), Descending(MaxStable)}
RCLists == {<<>>, RCList(MaxRC)}
\* what GetServersFromTier may hand to selectServerFromList
TierLists == {<<>>, Ascending(MaxStable - 1), Ascending(MaxStable)}

Range(s) == {s[i] : i \in 1..Len(s)}

\* the client ids of Test_Hash (hash % 4 = 0, 1, 2, 3) and of Test_Empty
TestIDs == <<
    <<246, 133, 99, 3, 17, 128, 114, 151, 35, 161>>,
    <<140, 65, 52, 225, 156, 13, 252, 229, 65, 75>>,
    <<84, 201, 235, 87, 10, 87, 20, 67, 43, 25>>,
    <<84, 197, 137, 102, 178, 220, 57, 247, 143, 165>> >>

ClientIDs == Range(TestIDs)

Workers == {"w1", "w2"}

\* every worker's request carries its own transaction id
XidOf(t) == IF t = "w1" THEN 1 ELSE 2

\* DHCPMessage
Msg(cid, xid) == [ClientID |-> cid, XID |-> <<xid>>]

\* rc_ratio values: the hashes of ClientIDs modulo 100 are 68, 37, 38, 95
RcRatios == {0, 38, 100}

NoCall == [op |-> "none", msg |-> Msg(<<>>, 0), list |-> <<>>,
           server |-> NilServer, err |-> "", fixed |-> TRUE, k |-> 0]

----------------------------------------------------------------------------
(* golang.org/x/time/rate.Limiter and hashicorp/golang-lru as                *)
(* lib/throttle.go uses them.  Tokens are counted in units of 1/TicksPerSec  *)
(* of a token, so that a limiter of limit r gains r units per tick.          *)

\* rate.NewLimiter(limit, burst): full on its first use; inf is rate.Inf
NewLimiter(inf, limit, burst) ==
    [inf |-> inf, limit |-> limit, burst |-> burst, tokens |-> burst * TicksPerSec, last |-> 0]

\* what lim.Allow() finds at time t after advancing the bucket
LimiterTokens(lim, t) ==
    LET last == IF t < lim.last THEN t ELSE lim.last
        grown == lim.tokens + (t - last) * lim.limit
    IN  IF grown > lim.burst * TicksPerSec THEN lim.burst * TicksPerSec ELSE grown

\* lim.Allow() at time t: the answer and the limiter afterwards
LimiterAllow(lim, t) ==
    IF lim.inf THEN [ok |-> TRUE, lim |-> lim]
    ELSE IF lim.burst >= 1 /\ LimiterTokens(lim, t) >= TicksPerSec
         THEN [ok |-> TRUE,
               lim |-> [lim EXCEPT !.tokens = LimiterTokens(lim, t) - TicksPerSec, !.last = t]]
         ELSE [ok |-> FALSE,
               lim |-> [lim EXCEPT !.last = IF t < lim.last THEN t ELSE lim.last]]

\* the LRU is a sequence of <<key, limiter>> entries, most recently used first
LRUKeys(lru) == {lru[i].key : i \in 1..Len(lru)}
LRUIndex(lru, key) == CHOOSE i \in 1..Len(lru) : lru[i].key = key
LRUWithout(lru, i) == SubSeq(lru, 1, i - 1) \o SubSeq(lru, i + 1, Len(lru))

\* lru.Get on a hit, with the limiter as its Allow call leaves it: the entry
\* moves to the front
LRUTouch(lru, key, lim) ==
    <<[key |-> key, lim |-> lim]>> \o LRUWithout(lru, LRUIndex(lru, key))

\* lru.Add of a new key keeping every entry, whatever the size
LRUAddNoEvict(lru, key, lim, size) == <<[key |-> key, lim |-> lim]>> \o lru

\* lru.Add of a new key: push to the front, evict the oldest beyond size
LRUAdd(lru, key, lim, size) ==
    LET pushed == <<[key |-> key, lim |-> lim]>> \o lru
    IN  IF Len(pushed) > size THEN SubSeq(pushed, 1, size) ELSE pushed

----------------------------------------------------------------------------
(* lib/throttle.go *)

ErrCacheRate == "Cache invalidation is too fast"
ErrRate == "Request rate is too high"

\* NewThrottle(Capacity, CacheRate, MaxRatePerItem), Capacity > 0
NewThrottle(capacity, cacheRate, maxRatePerItem) ==
    IF maxRatePerItem <= 0
    THEN [kind |-> "dummy", capacity |-> 0, maxRatePerItem |-> 0, bucketSize |-> 0,
          cacheRate |-> 0, lru |-> <<>>, cacheLimiter |-> NewLimiter(TRUE, 0, 1)]
    ELSE [kind |-> "lru", capacity |-> capacity, maxRatePerItem |-> maxRatePerItem,
          bucketSize |-> maxRatePerItem, cacheRate |-> cacheRate, lru |-> <<>>,
          cacheLimiter |-> IF cacheRate <= 0 THEN NewLimiter(TRUE, 0, 1)
                           ELSE NewLimiter(FALSE, cacheRate, cacheRate)]

\* OK adding the key to the cache before it asks the cache limiter
ThrottleOKAddFirst(th, key, t) ==
    IF th.kind = "dummy" THEN [ok |-> TRUE, err |-> "", thr |-> th]
    ELSE IF key \notin LRUKeys(th.lru)
    THEN LET fresh == LimiterAllow(NewLimiter(FALSE, th.maxRatePerItem, th.bucketSize), t)
             adm == LimiterAllow(th.cacheLimiter, t)
             added == [th EXCEPT !.cacheLimiter = adm.lim,
                                 !.lru = LRUAdd(th.lru, key, fresh.lim, th.capacity)]
         IN  IF adm.ok THEN [ok |-> fresh.ok, err |-> "", thr |-> added]
             ELSE [ok |-> FALSE, err |-> ErrCacheRate, thr |-> added]
    ELSE LET lim == th.lru[LRUIndex(th.lru, key)].lim
             got == LimiterAllow(lim, t)
         IN  [ok |-> got.ok, err |-> IF got.ok THEN "" ELSE ErrRate,
              thr |-> [th EXCEPT !.lru = LRUTouch(th.lru, key, got.lim)]]

\* OK never spending a token of the key's limiter
ThrottleOKFree(th, key, t) ==
    IF th.kind = "dummy" THEN [ok |-> TRUE, err |-> "", thr |-> th]
    ELSE IF key \notin LRUKeys(th.lru)
    THEN LET adm == LimiterAllow(th.cacheLimiter, t)
             lim == NewLimiter(FALSE, th.maxRatePerItem, th.bucketSize)
         IN  IF adm.ok
             THEN [ok |-> TRUE, err |-> "",
                   thr |-> [th EXCEPT !.cacheLimiter = adm.lim,
                                      !.lru = LRUAdd(th.lru, key, lim, th.capacity)]]
             ELSE [ok |-> FALSE, err |-> ErrCacheRate,
                   thr |-> [th EXCEPT !.cacheLimiter = adm.lim]]
    ELSE LET lim == th.lru[LRUIndex(th.lru, key)].lim
         IN  [ok |-> TRUE, err |-> "", thr |-> [th EXCEPT !.lru = LRUTouch(th.lru, key, lim)]]

\* throttleImpl.OK / dummyThtolleImp.OK at time t: the answer, the error
\* and the throttle afterwards
ThrottleOK(th, key, t) ==
    IF th.kind = "dummy" THEN [ok |-> TRUE, err |-> "", thr |-> th]
    ELSE IF key \notin LRUKeys(th.lru)
    THEN LET adm == LimiterAllow(th.cacheLimiter, t)
             fresh == LimiterAllow(NewLimiter(FALSE, th.maxRatePerItem, th.bucketSize), t)
         IN  IF adm.ok
             THEN [ok |-> fresh.ok, err |-> "",
                   thr |-> [th EXCEPT !.cacheLimiter = adm.lim,
                                      !.lru = LRUAdd(th.lru, key, fresh.lim, th.capacity)]]
             ELSE [ok |-> FALSE, err |-> ErrCacheRate,
                   thr |-> [th EXCEPT !.cacheLimiter = adm.lim]]
    ELSE LET lim == th.lru[LRUIndex(th.lru, key)].lim
             got == LimiterAllow(lim, t)
         IN  [ok |-> got.ok, err |-> IF got.ok THEN "" ELSE ErrRate,
              thr |-> [th EXCEPT !.lru = LRUTouch(th.lru, key, got.lim)]]

\* throttleImpl.len / dummyThtolleImp.len
ThrottleLen(th) == IF th.kind = "dummy" THEN -1 ELSE Len(th.lru)

\* the keys the throttle is asked about: addresses of servers and peers
ThrottleKeys == {1, 2, 3}
WatchedKey == CHOOSE k \in ThrottleKeys : \A j \in ThrottleKeys : k <= j

Capacities == {1, 2}
CacheRates == {-1, 1}
MaxRates == {-1, 0, 1, 2}

NoRet == [key |-> 0, ok |-> TRUE, err |-> ""]

\* no packet is being sent
NoReq == [server |-> NilServer, ok |-> FALSE, written |-> 0, log |-> "", logServer |-> NilServer]

SendIdle ==
    /\ spc = [t \in Workers |-> "idle"]
    /\ req = [t \in Workers |-> NoReq]

\* the balancer is not in use
BalancerIdle ==
    /\ alg = "xid"
    /\ bal = [stable |-> <<>>, rc |-> <<>>, rcRatio |-> 0,
              iterStable |-> 0, iterRC |-> 0, iterList |-> 0]
    /\ lock = [writer |-> "none", readers |-> {}]
    /\ pc = [t \in Workers |-> "idle"]
    /\ call = [t \in Workers |-> NoCall]
    /\ ncalls = 0

\* diffServersList is not in use
NoDiff == [original |-> <<>>, updated |-> <<>>, done |-> FALSE,
           added |-> <<>>, removed |-> <<>>]

DiffIdle == diff = NoDiff

\* the parts of the program other than the balancers, the throttle and
\* sendToServer are not in use
\* selectDestinationServer is not in use
NoOvr == [version |-> 4, override |-> <<>>, tier |-> "", b |-> <<>>, message |-> <<>>,
          now |-> 0, done |-> FALSE, res |-> <<>>]

OvrIdle == ovr = NoOvr

\* a new Algorithm holds no servers
NewAlgorithm == [stable |-> <<>>, rc |-> <<>>]
NoSelection == [config |-> 0, stable |-> <<>>, rc |-> <<>>,
                stableServers |-> <<>>, rcServers |-> <<>>, quiet |-> FALSE]

\* the server as NewServer leaves it, nothing running
CfgIdle ==
    /\ serverImpl = [config |-> 0, stableServers |-> <<>>, rcServers |-> <<>>]
    /\ algorithms = [c \in 0..MaxConfigs |-> NewAlgorithm]
    /\ updater = [pc |-> "getConfig", config |-> 0, stable |-> <<>>, rc |-> <<>>]
    /\ setConfig = [pc |-> "idle", config |-> 0]
    /\ selection = NoSelection

\* the error names of lib/handler.go
ErrPanic == "E_PANIC"
ErrRead == "E_READ"
ErrParse == "E_PARSE"
ErrNoServer == "E_NO_SERVER"
ErrConnRate == "E_CONN_RATE"
ErrWrite == "E_WRITE"
ErrorNames == {ErrPanic, ErrRead, ErrParse, ErrNoServer, ErrConnRate, ErrWrite}

\* the buffers of the sync.Pool: one per goroutine that can hold one
Buffers == 1..(Cardinality(Workers) + 1)

NoHandler == [pc |-> "free", buffer |-> 0, panicked |-> FALSE, logged |-> <<>>, intact |-> FALSE]

\* the listener with a logger and an algorithm, before its first read
ConnStart(logger, algorithm) ==
    /\ process = "running"
    /\ listener = [pc |-> "get", buffer |-> 0, logger |-> logger, algorithm |-> algorithm,
                   reads |-> 0, failed |-> 0, lastRead |-> "none"]
    /\ bufPool = [b \in Buffers |-> [holder |-> "pool", puts |-> 0]]
    /\ handlers = [w \in Workers |-> NoHandler]
    /\ records = [e \in ErrorNames |-> 0]

ConnIdle == ConnStart("custom", "xid")

\* no packet is being encapsulated or forwarded
NoPkt6 == [p |-> <<>>, peer |-> <<>>, done |-> FALSE, enc |-> <<>>, unw |-> <<>>]
NoPkt4 == [received |-> <<>>, done |-> FALSE, forwarded |-> <<>>]
Pkt6Idle == pkt6 = NoPkt6
Pkt4Idle == pkt4 = NoPkt4

\* no backend servers, no socket, no timer
NoSockets == [servers |-> <<>>, prev |-> <<>>, open |-> {}, next |-> 0, timers |-> {},
              override |-> {}]
SockIdle == sockets = NoSockets

\* no datagram
NoDatagram == [parses |-> FALSE, type |-> "", inner |-> FALSE, clientid |-> FALSE, mac |-> FALSE]
NoRaw == [pc |-> "none", variant |-> "", version |-> 0, server |-> FALSE, dgram |-> NoDatagram,
          updating |-> FALSE, did |-> <<>>, log |-> <<>>, success |-> 0,
          delivered |-> FALSE, config |-> 0, snapshot |-> 0, used |-> {}]
RawIdle == raw = NoRaw

\* no FileSourcer
NoFsrc == [version |-> 0, file |-> <<>>, done |-> FALSE, servers |-> <<>>]
FsrcIdle == fsrc = NoFsrc

\* no DHCPServer is followed
NoSendTo == [pc |-> "none", did |-> <<>>, result |-> ""]
NoDsrv == [origin |-> "", variant |-> "", conn |-> 0, open |-> {}, next |-> 0,
           timer |-> "none", send |-> NoSendTo, sends |-> 0]
DsrvIdle == dsrv = NoDsrv

OthersIdle ==
    /\ DiffIdle
    /\ OvrIdle
    /\ CfgIdle
    /\ ConnIdle
    /\ Pkt6Idle
    /\ Pkt4Idle
    /\ SockIdle /\ RawIdle /\ FsrcIdle /\ DsrvIdle

\* the throttle is not in use
ThrottleIdle ==
    /\ thr = NewThrottle(1, 0, 0)
    /\ now = 0
    /\ thrRet = NoRet
    /\ okHist = <<>>
    /\ admitted = {}
    /\ nOK = 0

\* a call of Throttle.OK(key), under the throttle's mutex
OKCall(key) ==
    /\ nOK < MaxOK
    /\ LET r == ThrottleOK(thr, key, now)
       IN  /\ thr' = r.thr
           /\ thrRet' = [key |-> key, ok |-> r.ok, err |-> r.err]
           /\ okHist' = IF key = WatchedKey /\ r.ok
                        THEN Append(okHist, [t |-> now, fresh |-> key \notin LRUKeys(thr.lru)])
                        ELSE okHist
           /\ admitted' = admitted \cup (LRUKeys(r.thr.lru) \ LRUKeys(thr.lru))
    /\ nOK' = nOK + 1
    /\ UNCHANGED <<now, balVars, sendVars, otherVars>>

\* time passes
Tick ==
    /\ now < MaxTime
    /\ now' = now + 1
    /\ UNCHANGED <<thr, thrRet, okHist, admitted, nOK, balVars, sendVars, otherVars>>

ThrottleInit ==
    /\ \E c \in Capacities, cr \in CacheRates, r \in MaxRates : thr = NewThrottle(c, cr, r)
    /\ now = 0
    /\ thrRet = NoRet
    /\ okHist = <<>>
    /\ admitted = {}
    /\ nOK = 0
    /\ BalancerIdle
    /\ SendIdle
    /\ OthersIdle

ThrottleNext ==
    \/ \E key \in ThrottleKeys : OKCall(key)
    \/ Tick

ThrottleSpec == ThrottleInit /\ [][ThrottleNext]_vars

----------------------------------------------------------------------------
(* net.IP and lib/dhcp_server.go: servers as the server list code sees them *)

\* net.IP values: a 4-byte IPv4 address, the same address in its 16-byte
\* IPv4-in-IPv6 form, and a 16-byte IPv6 address
IPv4(n) == <<10, 0, 0, n>>
IPv4in6(n) == <<0, 0, 0, 0, 0, 0, 0, 0, 0, 0, 255, 255, 10, 0, 0, n>>
IPv6(n) == <<32, 1, 13, 184, 0, 0, 0, 0, 0, 0, 0, 0, 0, 0, 0, n>>

\* ip.To4(): the 4-byte form of an IPv4 address in either form, else nil
To4(ip) ==
    IF Len(ip) = 4 THEN ip
    ELSE IF Len(ip) = 16 /\ (\A i \in 1..10 : ip[i] = 0) /\ ip[11] = 255 /\ ip[12] = 255
         THEN SubSeq(ip, 13, 16)
         ELSE <<>>

\* net.IP.String(): dotted decimal for both forms of an IPv4 address,
\* the IPv6 text otherwise
IPString(ip) ==
    IF Len(ip) = 0 THEN <<"<nil>", <<>>>>
    ELSE IF To4(ip) # <<>> THEN <<"v4", To4(ip)>>
         ELSE <<"v6", ip>>

NewDHCPServer(hostname, ip, port) == [Hostname |-> hostname, Address |-> ip, Port |-> port]

----------------------------------------------------------------------------
(* lib/update_servers.go: diffServersList *)

\* serverKey{s.Address.String(), s.Port}
ServerKey(s) == [Address |-> IPString(s.Address), Port |-> s.Port]

\* a key made of the address alone
ServerKeyNoPort(s) == [Address |-> IPString(s.Address), Port |-> 0]

\* the key diffServersList stores in its maps
DiffKey(s) == ServerKey(s)

\* for _, s := range list { m[key(s)] = true }, from element i on
RECURSIVE DiffMap(_, _, _)
DiffMap(list, i, m) ==
    IF i > Len(list) THEN m
    ELSE DiffMap(list, i + 1, m \cup {DiffKey(list[i])})

\* for _, s := range list { if _, ok := m[key(s)]; !ok { out = append(out, s) } }
RECURSIVE DiffAppend(_, _, _, _)
DiffAppend(list, i, m, out) ==
    IF i > Len(list) THEN out
    ELSE DiffAppend(list, i + 1, m,
                    IF DiffKey(list[i]) \in m THEN out ELSE Append(out, list[i]))

DiffServersList(original, updated) ==
    [added |-> DiffAppend(updated, 1, DiffMap(original, 1, {}), <<>>),
     removed |-> DiffAppend(original, 1, DiffMap(updated, 1, {}), <<>>)]

\* the servers the lists are made of: one address in its two forms, two
\* ports, two hostnames for one key
DiffServers ==
    {NewDHCPServer("a", IPv4(1), 67), NewDHCPServer("b", IPv4in6(1), 67),
     NewDHCPServer("a", IPv4(1), 68), NewDHCPServer("c", IPv4(2), 67),
     NewDHCPServer("d", IPv6(1), 547)}

RECURSIVE SeqsUpTo(_, _)
SeqsUpTo(S, n) ==
    IF n = 0 THEN {<<>>}
    ELSE SeqsUpTo(S, n - 1) \cup {Append(l, x) : l \in SeqsUpTo(S, n - 1), x \in S}

DiffLists == SeqsUpTo(DiffServers, MaxDiffLen)

\* added, removed := diffServersList(old, new)
DiffCall ==
    /\ ~diff.done
    /\ LET r == DiffServersList(diff.original, diff.updated)
       IN  diff' = [diff EXCEPT !.done = TRUE, !.added = r.added, !.removed = r.removed]
    /\ UNCHANGED exceptDiff

DiffInit ==
    /\ \E o \in DiffLists, u \in DiffLists :
         diff = [NoDiff EXCEPT !.original = o, !.updated = u]
    /\ BalancerIdle
    /\ ThrottleIdle
    /\ SendIdle
    /\ OvrIdle
    /\ CfgIdle
    /\ ConnIdle
    /\ Pkt6Idle
    /\ Pkt4Idle
    /\ SockIdle /\ RawIdle /\ FsrcIdle /\ DsrvIdle

DiffNext == DiffCall

DiffSpec == DiffInit /\ [][DiffNext]_vars

----------------------------------------------------------------------------
(* lib/handler.go: sendToServer *)

LogOK == "success"

\* the servers selectDestinationServer may return; two of them share an address
SendServers == {Srv(1, 67), Srv(1, 68), Srv(2, 67)}

\* sendToServer writing to the server whatever the throttle answered
AfterThrottleAlways(ok) == "sendTo"

\* sendToServer: if !ok it logs and returns, else it goes on to server.sendTo
AfterThrottle(ok) == IF ok THEN "sendTo" ELSE "done"

\* sendToServer up to the throttle's answer: throttle.OK(server.Address),
\* and LogErr(ErrConnRate) with the server when the answer is false
SendToServer(t, server) ==
    /\ spc[t] = "idle"
    /\ LET r == ThrottleOK(thr, server.Address, now)
       IN  /\ thr' = r.thr
           /\ spc' = [spc EXCEPT ![t] = AfterThrottle(r.ok)]
           /\ req' = [req EXCEPT ![t] =
                        [NoReq EXCEPT !.server = server,
                                      !.ok = r.ok,
                                      !.log = IF AfterThrottle(r.ok) = "done" THEN ErrConnRate ELSE "",
                                      !.logServer = IF AfterThrottle(r.ok) = "done"
                                                    THEN server ELSE NilServer]]
    /\ UNCHANGED <<now, thrRet, okHist, admitted, nOK, balVars, otherVars>>

\* sendToServer from server.sendTo on: the packet is written and LogSuccess
\* called, or sendTo fails and LogErr(ErrWrite) is called
SendTo(t, succeeds) ==
    /\ spc[t] = "sendTo"
    /\ req' = [req EXCEPT ![t].written = IF succeeds THEN 1 ELSE 0,
                          ![t].log = IF succeeds THEN LogOK ELSE ErrWrite,
                          ![t].logServer = req[t].server]
    /\ spc' = [spc EXCEPT ![t] = "done"]
    /\ UNCHANGED <<thrVars, balVars, otherVars>>

\* sendToServer returns; the goroutine is free for the next packet
SendReturn(t) ==
    /\ spc[t] = "done"
    /\ spc' = [spc EXCEPT ![t] = "idle"]
    /\ req' = [req EXCEPT ![t] = NoReq]
    /\ UNCHANGED <<thrVars, balVars, otherVars>>

SendInit ==
    /\ \E c \in Capacities, cr \in CacheRates, r \in MaxRates : thr = NewThrottle(c, cr, r)
    /\ now = 0
    /\ thrRet = NoRet
    /\ okHist = <<>>
    /\ admitted = {}
    /\ nOK = 0
    /\ BalancerIdle
    /\ SendIdle
    /\ OthersIdle

SendNext ==
    \/ \E t \in Workers, s \in SendServers : SendToServer(t, s)
    \/ \E t \in Workers, b \in BOOLEAN : SendTo(t, b)
    \/ \E t \in Workers : SendReturn(t)
    \/ Tick

SendSpec == SendInit /\ [][SendNext]_vars

----------------------------------------------------------------------------
(* lib/modulo.go: the sticky balancer *)

\* FNV-1 instead of FNV-1a: multiply, then xor
RECURSIVE Fnv1Fold(_, _, _)
Fnv1Fold(h, bytes, i) ==
    IF i > Len(bytes) THEN h
    ELSE Fnv1Fold(FnvXor(FnvMul(h), bytes[i]), bytes, i + 1)

\* selectServerFromList hashing with fnv.New32() in place of fnv.New32a()
ModuloSelectFnv1(list, message) ==
    IF Len(list) = 0
    THEN [server |-> NilServer, err |-> "Server list is empty"]
    ELSE [server |-> list[HashMod(Fnv1Fold(FnvOffsetBasis, message.ClientID, 1), Len(list)) + 1],
          err |-> ""]

\* selectServerFromList hashing the transaction id in place of the client id
ModuloSelectByXID(list, message) ==
    IF Len(list) = 0
    THEN [server |-> NilServer, err |-> "Server list is empty"]
    ELSE [server |-> list[HashMod(Fnv32a(message.XID), Len(list)) + 1], err |-> ""]

\* selectServerFromList between RLock and RUnlock
ModuloSelect(list, message) ==
    IF Len(list) = 0
    THEN [server |-> NilServer, err |-> "Server list is empty"]
    ELSE [server |-> list[HashMod(Fnv32a(message.ClientID), Len(list)) + 1], err |-> ""]

\* the ratio test with <= in place of <
ModuloRatioListLE(b, message) ==
    IF HashMod(Fnv32a(message.ClientID), 100) <= b.rcRatio THEN b.rc ELSE b.stable

\* the list selectRatioBasedDhcpServer hands to selectServerFromList
ModuloRatioList(b, message) ==
    IF HashMod(Fnv32a(message.ClientID), 100) < b.rcRatio THEN b.rc ELSE b.stable

\* a list update ends the period over which the lists are fixed for the
\* ratio selections in flight or not yet consumed
Unfix(changed) ==
    [t \in Workers |->
        IF changed /\ call[t].op = "ratio" THEN [call[t] EXCEPT !.fixed = FALSE] ELSE call[t]]

\* selectRatioBasedDhcpServer up to its call of selectServerFromList: reads
\* rcRatio and the list without the lock
ModuloSelectRatioBasedDhcpServer(t, cid) ==
    /\ alg = "xid"
    /\ pc[t] = "idle"
    /\ call' = [call EXCEPT ![t] = [NoCall EXCEPT !.op = "ratio",
                                                  !.msg = Msg(cid, XidOf(t)),
                                                  !.list = ModuloRatioList(bal, Msg(cid, XidOf(t)))]]
    /\ pc' = [pc EXCEPT ![t] = "mRLock"]
    /\ UNCHANGED <<alg, bal, lock, ncalls, thrVars, sendVars, otherVars>>

\* handleTierOverride calls selectServerFromList with the tier's list
ModuloCallSelectServerFromList(t, list, cid) ==
    /\ alg = "xid"
    /\ pc[t] = "idle"
    /\ call' = [call EXCEPT ![t] = [NoCall EXCEPT !.op = "list",
                                                  !.msg = Msg(cid, XidOf(t)),
                                                  !.list = list]]
    /\ pc' = [pc EXCEPT ![t] = "mRLock"]
    /\ UNCHANGED <<alg, bal, lock, ncalls, thrVars, sendVars, otherVars>>

\* selectServerFromList: RLock, select, RUnlock
ModuloSelectServerFromList(t) ==
    /\ pc[t] = "mRLock"
    /\ lock.writer = "none"
    /\ LET r == ModuloSelect(call[t].list, call[t].msg)
       IN  call' = [call EXCEPT ![t].server = r.server, ![t].err = r.err]
    /\ pc' = [pc EXCEPT ![t] = "done"]
    /\ UNCHANGED <<alg, bal, lock, ncalls, thrVars, sendVars, otherVars>>

\* updateStableServerList / updateRCServerList: Lock, *ptr = list, Unlock
ModuloUpdateServerList(name, list) ==
    /\ alg = "xid"
    /\ lock.writer = "none" /\ lock.readers = {}
    /\ bal' = [bal EXCEPT ![name] = list]
    /\ call' = Unfix(bal[name] # list)
    /\ UNCHANGED <<alg, lock, pc, ncalls, thrVars, sendVars, otherVars>>

----------------------------------------------------------------------------
(* lib/rr.go: the round-robin balancer *)

\* the deferred unlocks that run when selectServerFromList returns or panics:
\* its own RUnlock, then the Unlock of selectRatioBasedDhcpServer if that
\* is the caller
RRRelease(t) ==
    [writer |-> IF call[t].op = "ratio" THEN "none" ELSE lock.writer,
     readers |-> lock.readers \ {t}]

\* selectRatioBasedDhcpServer: Lock, set iterList from the pool's cursor,
\* advance the cursor, call selectServerFromList with the pool's list
RRSelectRatioBasedDhcpServer(t, cid) ==
    /\ alg = "rr"
    /\ pc[t] = "idle"
    /\ ncalls < MaxSel
    /\ lock.writer = "none" /\ lock.readers = {}
    /\ lock' = [lock EXCEPT !.writer = t]
    /\ LET toRC == HashMod(Fnv32a(cid), 100) < bal.rcRatio
       IN  /\ bal' = IF toRC
                     THEN [bal EXCEPT !.iterList = bal.iterRC, !.iterRC = bal.iterRC + 1]
                     ELSE [bal EXCEPT !.iterList = bal.iterStable, !.iterStable = bal.iterStable + 1]
           /\ call' = [call EXCEPT ![t] = [NoCall EXCEPT !.op = "ratio",
                                                         !.msg = Msg(cid, XidOf(t)),
                                                         !.list = IF toRC THEN bal.rc ELSE bal.stable,
                                                         !.k = ncalls]]
    /\ pc' = [pc EXCEPT ![t] = "rrRLock"]
    /\ ncalls' = ncalls + 1
    /\ UNCHANGED <<alg, thrVars, sendVars, otherVars>>

\* handleTierOverride calls selectServerFromList with the tier's list; the
\* round-robin selectServerFromList never reads its message
RRCallSelectServerFromList(t, list) ==
    /\ alg = "rr"
    /\ pc[t] = "idle"
    /\ call' = [call EXCEPT ![t] = [NoCall EXCEPT !.op = "list", !.list = list]]
    /\ pc' = [pc EXCEPT ![t] = "rrRLock"]
    /\ UNCHANGED <<alg, bal, lock, ncalls, thrVars, sendVars, otherVars>>

\* selectServerFromList: rr.lock.RLock() waits while a writer holds the lock
RRRLock(t) ==
    /\ pc[t] = "rrRLock"
    /\ lock.writer = "none"
    /\ lock' = [lock EXCEPT !.readers = lock.readers \cup {t}]
    /\ pc' = [pc EXCEPT ![t] = "rrLen"]
    /\ UNCHANGED <<alg, bal, call, ncalls, thrVars, sendVars, otherVars>>

\* selectServerFromList: the empty check, then rr.iterList = rr.iterList % len(list)
RRModulo(t) ==
    /\ pc[t] = "rrLen"
    /\ IF Len(call[t].list) = 0
       THEN /\ call' = [call EXCEPT ![t].err = "Server list is empty"]
            /\ lock' = RRRelease(t)
            /\ pc' = [pc EXCEPT ![t] = "done"]
            /\ bal' = bal
       ELSE /\ bal' = [bal EXCEPT !.iterList = bal.iterList % Len(call[t].list)]
            /\ pc' = [pc EXCEPT ![t] = "rrIdx"]
            /\ UNCHANGED <<call, lock>>
    /\ UNCHANGED <<alg, ncalls, thrVars, sendVars, otherVars>>

\* selectServerFromList: server := list[rr.iterList], which panics when the
\* index is out of range
RRIndex(t) ==
    /\ pc[t] = "rrIdx"
    /\ IF bal.iterList >= Len(call[t].list)
       THEN /\ call' = [call EXCEPT ![t].err = "panic: index out of range"]
            /\ lock' = RRRelease(t)
            /\ pc' = [pc EXCEPT ![t] = "done"]
       ELSE /\ call' = [call EXCEPT ![t].server = call[t].list[bal.iterList + 1]]
            /\ pc' = [pc EXCEPT ![t] = "rrInc"]
            /\ lock' = lock
    /\ UNCHANGED <<alg, bal, ncalls, thrVars, sendVars, otherVars>>

\* selectServerFromList: rr.iterList++ and return server, nil
RRIncrement(t) ==
    /\ pc[t] = "rrInc"
    /\ bal' = [bal EXCEPT !.iterList = bal.iterList + 1]
    /\ lock' = RRRelease(t)
    /\ pc' = [pc EXCEPT ![t] = "done"]
    /\ UNCHANGED <<alg, call, ncalls, thrVars, sendVars, otherVars>>

\* updateStableServerList / updateRCServerList: Lock, *ptr = list, both
\* cursors back to 0, Unlock
RRUpdateServerList(name, list) ==
    /\ alg = "rr"
    /\ lock.writer = "none" /\ lock.readers = {}
    /\ bal' = [bal EXCEPT ![name] = list, !.iterStable = 0, !.iterRC = 0]
    /\ call' = Unfix(bal[name] # list)
    /\ ncalls' = 0
    /\ UNCHANGED <<alg, lock, pc, thrVars, sendVars, otherVars>>

----------------------------------------------------------------------------
(* The balancer under concurrent selections and list updates *)

\* the caller takes the result; the goroutine is free for the next request
Return(t) ==
    /\ pc[t] = "done"
    /\ pc' = [pc EXCEPT ![t] = "idle"]
    /\ call' = [call EXCEPT ![t] = NoCall]
    /\ UNCHANGED <<alg, bal, lock, ncalls, thrVars, sendVars, otherVars>>

\* new(modulo) or new(roundRobin), then SetRCRatio from the configuration
Init ==
    /\ alg \in {"xid", "rr"}
    /\ \E r \in RcRatios :
         bal = [stable |-> <<>>, rc |-> <<>>, rcRatio |-> r,
                iterStable |-> 0, iterRC |-> 0, iterList |-> 0]
    /\ lock = [writer |-> "none", readers |-> {}]
    /\ pc = [t \in Workers |-> "idle"]
    /\ call = [t \in Workers |-> NoCall]
    /\ ncalls = 0
    /\ ThrottleIdle
    /\ SendIdle
    /\ OthersIdle

\* the steps of a selection that has been started
Step(t) ==
    \/ ModuloSelectServerFromList(t)
    \/ RRRLock(t)
    \/ RRModulo(t)
    \/ RRIndex(t)
    \/ RRIncrement(t)
    \/ Return(t)

Next ==
    \/ \E t \in Workers, cid \in ClientIDs : ModuloSelectRatioBasedDhcpServer(t, cid)
    \/ \E t \in Workers, cid \in ClientIDs, l \in TierLists : ModuloCallSelectServerFromList(t, l, cid)
    \/ \E l \in StableLists : ModuloUpdateServerList("stable", l)
    \/ \E l \in RCLists : ModuloUpdateServerList("rc", l)
    \/ \E t \in Workers, cid \in ClientIDs : RRSelectRatioBasedDhcpServer(t, cid)
    \/ \E t \in Workers, l \in TierLists : RRCallSelectServerFromList(t, l)
    \/ \E l \in StableLists : RRUpdateServerList("stable", l)
    \/ \E l \in RCLists : RRUpdateServerList("rc", l)
    \/ \E t \in Workers : Step(t)

Spec == Init /\ [][Next]_vars

----------------------------------------------------------------------------
(* lib/handler.go: selectDestinationServer and the overrides *)

\* hex.Encode of one byte: two lower-case digits
HexDigits == <<"0", "1", "2", "3", "4", "5", "6", "7", "8", "9", "a", "b", "c", "d", "e", "f">>
HexByte(b) == <<HexDigits[(b \div 16) + 1], HexDigits[(b % 16) + 1]>>

\* FormatID: "12:34:56:78:9a" for the bytes 0x12 0x34 0x56 0x78 0x9a
RECURSIVE FormatIDFrom(_, _)
FormatIDFrom(buf, i) ==
    IF i > Len(buf) THEN <<>>
    ELSE HexByte(buf[i]) \o (IF i < Len(buf) THEN <<":">> ELSE <<>>) \o FormatIDFrom(buf, i + 1)
FormatID(buf) == FormatIDFrom(buf, 1)

\* A text is a sequence of tokens: numbers, dots, colons and words.
Num(n) == <<"num", n>>
Dot == <<"dot", 0>>
Colon == <<"colon", 0>>
Word(n) == <<"word", n>>
Slash == <<"slash", 0>>
Space == <<"space", 0>>
Plus == <<"plus", 0>>
Minus == <<"minus", 0>>

\* net.ParseIP: four decimal octets separated by dots give the 16-byte
\* IPv4-in-IPv6 form, eight 16-bit groups separated by colons give an
\* IPv6 address, anything else gives nil
IsDotted(host) ==
    /\ Len(host) = 7
    /\ \A i \in {1, 3, 5, 7} : host[i][1] = "num" /\ host[i][2] \in 0..255
    /\ \A i \in {2, 4, 6} : host[i] = Dot
IsGroups(host) ==
    /\ Len(host) = 15
    /\ \A i \in 1..15 : IF i % 2 = 1 THEN host[i][1] = "num" /\ host[i][2] \in 0..65535
                        ELSE host[i] = Colon
ParseIP(host) ==
    IF IsDotted(host)
    THEN <<0, 0, 0, 0, 0, 0, 0, 0, 0, 0, 255, 255, host[1][2], host[3][2], host[5][2], host[7][2]>>
    ELSE IF IsGroups(host)
         THEN [i \in 1..16 |-> IF i % 2 = 1 THEN host[i][2] \div 256 ELSE host[i - 1][2] % 256]
         ELSE <<>>

\* time.Parse("2006/01/02 15:04 -0700", text): the time in minutes since
\* 2000/01/01 00:00 UTC, or an error
IsLeap(y) == (y % 4 = 0) /\ ((y % 100 # 0) \/ (y % 400 = 0))
DaysIn(y, mo) ==
    IF mo = 2 THEN (IF IsLeap(y) THEN 29 ELSE 28)
    ELSE IF mo \in {4, 6, 9, 11} THEN 30 ELSE 31
RECURSIVE DaysBeforeMonth(_, _)
DaysBeforeMonth(y, mo) == IF mo = 1 THEN 0 ELSE DaysBeforeMonth(y, mo - 1) + DaysIn(y, mo - 1)
RECURSIVE DaysBeforeYear(_)
DaysBeforeYear(y) ==
    IF y = 2000 THEN 0
    ELSE IF y > 2000 THEN DaysBeforeYear(y - 1) + (IF IsLeap(y - 1) THEN 366 ELSE 365)
         ELSE DaysBeforeYear(y + 1) - (IF IsLeap(y) THEN 366 ELSE 365)
ExpirationShape(text) ==
    /\ Len(text) = 12
    /\ \A i \in {1, 3, 5, 7, 9, 12} : text[i][1] = "num"
    /\ text[2] = Slash /\ text[4] = Slash /\ text[6] = Space /\ text[8] = Colon
    /\ text[10] = Space /\ text[11] \in {Plus, Minus}
ParseExpiration(text) ==
    IF ~ExpirationShape(text) THEN [err |-> TRUE, t |-> 0]
    ELSE LET y == text[1][2]   mo == text[3][2]   d == text[5][2]
             h == text[7][2]   mi == text[9][2]
             zh == text[12][2] \div 100   zm == text[12][2] % 100
             off == (IF text[11] = Plus THEN 1 ELSE -1) * ((zh * 60) + zm)
         IN  IF \/ mo \notin 1..12 \/ d < 1 \/ h > 23 \/ mi > 59 \/ zh > 24 \/ zm > 60
             THEN [err |-> TRUE, t |-> 0]
             ELSE IF d > DaysIn(y, mo) THEN [err |-> TRUE, t |-> 0]
             ELSE [err |-> FALSE,
                   t |-> ((((DaysBeforeYear(y) + DaysBeforeMonth(y, mo) + (d - 1)) * 24) + h) * 60)
                         + mi - off]

\* what handleOverride and selectDestinationServer return, with the calls
\* they made: GetServersFromTier, SelectServerFromList,
\* SelectRatioBasedDhcpServer, server.connect
Outcome(server, err) ==
    [server |-> server, err |-> err, tierLookup |-> FALSE, fromList |-> FALSE,
     ratioBased |-> FALSE, connect |-> FALSE]

\* config.HostSourcer.GetServersFromTier
GetServersFromTier(tier) ==
    IF tier = "tier1" THEN [servers |-> Ascending(MaxStable - 1), err |-> ""]
    ELSE IF tier = "empty" THEN [servers |-> <<>>, err |-> ""]
    ELSE [servers |-> <<>>, err |-> "no such tier"]

HandleHostOverride(version, host) ==
    IF ParseIP(host) = <<>>
    THEN Outcome(NilServer, "Failed to get IP for overridden host")
    ELSE Outcome(NewDHCPServer(host, ParseIP(host), IF version = 6 THEN 547 ELSE 67), "")

HandleTierOverride(tier, message) ==
    LET l == GetServersFromTier(tier)
    IN  IF l.err # ""
        THEN [Outcome(NilServer, "Failed to get servers from tier") EXCEPT !.tierLookup = TRUE]
        ELSE IF Len(l.servers) = 0
        THEN [Outcome(NilServer, "Sourcer returned no servers") EXCEPT !.tierLookup = TRUE]
        ELSE LET r == ModuloSelect(l.servers, message)
             IN  [Outcome(r.server, IF r.err # "" THEN "Failed to select server" ELSE "")
                    EXCEPT !.tierLookup = TRUE, !.fromList = TRUE]

\* the override with the tier field looked at before the host field
OverrideTargetTierFirst(version, override, message) ==
    IF override.Tier # "" THEN HandleTierOverride(override.Tier, message)
    ELSE IF Len(override.Host) > 0 THEN HandleHostOverride(version, override.Host)
    ELSE Outcome(NilServer, "")

\* handleOverride from `var server *DHCPServer` to the error check
OverrideTarget(version, override, message) ==
    IF Len(override.Host) > 0 THEN HandleHostOverride(version, override.Host)
    ELSE IF override.Tier # "" THEN HandleTierOverride(override.Tier, message)
    ELSE Outcome(NilServer, "")

\* an override that ignores its expiration
OverrideExpiredNever(expiration, t) == FALSE

\* handleOverride's test of the expiration: the text does not parse, or
\* time.Now().After(expiration)
OverrideExpired(expiration, t) ==
    /\ expiration # <<>>
    /\ \/ ParseExpiration(expiration).err
       \/ t > ParseExpiration(expiration).t

\* an override whose errors are taken for a miss
HandleOverrideLenient(version, overrides, message, t) ==
    IF FormatID(message.Mac) \notin DOMAIN overrides THEN Outcome(NilServer, "")
    ELSE LET override == overrides[FormatID(message.Mac)]
             r == OverrideTarget(version, override, message)
         IN  IF OverrideExpired(override.Expiration, t) \/ r.err # "" THEN Outcome(NilServer, "")
             ELSE IF r.server # NilServer THEN [r EXCEPT !.connect = TRUE]
             ELSE r

\* handleOverride; overrides is config.Overrides, a map from FormatID(mac)
HandleOverride(version, overrides, message, t) ==
    IF FormatID(message.Mac) \notin DOMAIN overrides THEN Outcome(NilServer, "")
    ELSE LET override == overrides[FormatID(message.Mac)]
         IN  IF OverrideExpired(override.Expiration, t) THEN Outcome(NilServer, "")
             ELSE LET r == OverrideTarget(version, override, message)
                  IN  IF r.err # "" THEN [r EXCEPT !.server = NilServer]
                      ELSE IF r.server # NilServer THEN [r EXCEPT !.connect = TRUE]
                      ELSE r

\* config.Algorithm.SelectRatioBasedDhcpServer of the modulo balancer
SelectRatioBased(b, message) == ModuloSelect(ModuloRatioList(b, message), message)

SelectDestinationServer(version, overrides, b, message, t) ==
    LET r == HandleOverride(version, overrides, message, t)
    IN  IF r.err # "" THEN r
        ELSE IF r.server = NilServer
        THEN [r EXCEPT !.server = SelectRatioBased(b, message).server,
                       !.err = SelectRatioBased(b, message).err,
                       !.ratioBased = TRUE]
        ELSE r

\* inputs
OverrideMac == <<170, 187, 204, 221, 238, 255>>
OtherMac == <<18, 52, 86, 120, 144, 171>>
OverrideHosts ==
    {<<>>,
     <<Num(10), Dot, Num(0), Dot, Num(0), Dot, Num(9)>>,
     <<Num(10), Dot, Num(0), Dot, Num(0), Dot, Num(256)>>,
     <<Word(1), Dot, Word(2)>>,
     <<Num(8193), Colon, Num(3512), Colon, Num(0), Colon, Num(0), Colon,
       Num(0), Colon, Num(0), Colon, Num(0), Colon, Num(9)>>}
OverrideTiers == {"", "tier1", "empty", "missing"}
Stamp(y, mo, d, h, mi, sign, z) ==
    <<Num(y), Slash, Num(mo), Slash, Num(d), Space, Num(h), Colon, Num(mi), Space, sign, Num(z)>>
OverrideExpirations ==
    {<<>>,
     Stamp(2000, 1, 1, 0, 0, Plus, 0),
     Stamp(2000, 1, 1, 0, 0, Plus, 100),
     Stamp(2000, 1, 1, 0, 0, Minus, 100),
     Stamp(2000, 2, 29, 0, 0, Plus, 0),
     Stamp(2001, 2, 29, 0, 0, Plus, 0),
     Stamp(1999, 12, 31, 23, 59, Plus, 0),
     Stamp(2000, 13, 1, 0, 0, Plus, 0),
     Stamp(2000, 1, 1, 24, 0, Plus, 0),
     <<Num(2000), Minus, Num(1), Minus, Num(1)>>,
     <<Word(3)>>}
OverrideClocks == {-30, 0, 30, 100000}
OverrideBalancers ==
    {[stable |-> Ascending(MaxStable), rc |-> RCList(MaxRC), rcRatio |-> 38],
     [stable |-> <<>>, rc |-> <<>>, rcRatio |-> 0]}
OMsg(mac, cid) == [ClientID |-> cid, XID |-> <<0>>, Mac |-> mac]
OverridesOf(o) == [k \in {FormatID(OverrideMac)} |-> o]

\* server, err := selectDestinationServer(config, &message)
SelectDestinationServerCall ==
    /\ ~ovr.done
    /\ ovr' = [ovr EXCEPT !.done = TRUE,
                          !.res = SelectDestinationServer(ovr.version, OverridesOf(ovr.override),
                                                          ovr.b, ovr.message, ovr.now)]
    /\ UNCHANGED exceptOvr

OverrideInit ==
    /\ \E v \in {4, 6}, h \in OverrideHosts, tr \in OverrideTiers, e \in OverrideExpirations,
          b \in OverrideBalancers, mac \in {OverrideMac, OtherMac},
          cid \in {TestIDs[2], TestIDs[3]}, t \in OverrideClocks :
         ovr = [version |-> v, override |-> [Host |-> h, Tier |-> tr, Expiration |-> e],
                tier |-> tr, b |-> b, message |-> OMsg(mac, cid),
                now |-> t, done |-> FALSE, res |-> <<>>]
    /\ BalancerIdle
    /\ ThrottleIdle
    /\ SendIdle
    /\ DiffIdle
    /\ CfgIdle
    /\ ConnIdle
    /\ Pkt6Idle
    /\ Pkt4Idle
    /\ SockIdle /\ RawIdle /\ FsrcIdle /\ DsrvIdle

OverrideNext == SelectDestinationServerCall

OverrideSpec == OverrideInit /\ [][OverrideNext]_vars

----------------------------------------------------------------------------
(* lib/server.go SetConfig and lib/update_servers.go updateServersContinuous *)

\* what the HostSourcer may return
SourcedStable == {<<>>, Ascending(MaxStable - 1), Ascending(MaxStable)}
SourcedRC == {<<>>, RCList(MaxRC)}

\* config := s.GetConfig(); GetStableServers(); GetRCServers(), no error
UpdaterSource(stable, rc) ==
    /\ updater.pc = "getConfig"
    /\ updater' = [pc |-> "updateStable", config |-> serverImpl.config,
                   stable |-> stable, rc |-> rc]
    /\ UNCHANGED <<serverImpl, algorithms, setConfig, selection, exceptCfg>>

\* the sourcer returns an error: nothing is updated, the loop sleeps
UpdaterSourceError ==
    /\ updater.pc = "getConfig"
    /\ updater' = [updater EXCEPT !.pc = "sleep", !.config = serverImpl.config]
    /\ UNCHANGED <<serverImpl, algorithms, setConfig, selection, exceptCfg>>

\* a reconcile cycle that takes whatever list the sourcer returned
NonEmptyAlways(list) == TRUE

\* if len(stable) > 0 { ... }, if len(rc) > 0 { ... }
NonEmpty(list) == Len(list) > 0

\* if len(stable) > 0 { config.Algorithm.UpdateStableServerList(stable) }
UpdaterUpdateStable ==
    /\ updater.pc = "updateStable"
    /\ IF NonEmpty(updater.stable)
       THEN /\ algorithms' = [algorithms EXCEPT ![updater.config].stable = updater.stable]
            /\ updater' = [updater EXCEPT !.pc = "setStable"]
       ELSE /\ updater' = [updater EXCEPT !.pc = "updateRC"]
            /\ UNCHANGED algorithms
    /\ UNCHANGED <<serverImpl, setConfig, selection, exceptCfg>>

\* s.stableServers = stable
UpdaterSetStable ==
    /\ updater.pc = "setStable"
    /\ serverImpl' = [serverImpl EXCEPT !.stableServers = updater.stable]
    /\ updater' = [updater EXCEPT !.pc = "updateRC"]
    /\ UNCHANGED <<algorithms, setConfig, selection, exceptCfg>>

\* if len(rc) > 0 { config.Algorithm.UpdateRCServerList(rc) }
UpdaterUpdateRC ==
    /\ updater.pc = "updateRC"
    /\ IF NonEmpty(updater.rc)
       THEN /\ algorithms' = [algorithms EXCEPT ![updater.config].rc = updater.rc]
            /\ updater' = [updater EXCEPT !.pc = "setRC"]
       ELSE /\ updater' = [updater EXCEPT !.pc = "sleep"]
            /\ UNCHANGED algorithms
    /\ UNCHANGED <<serverImpl, setConfig, selection, exceptCfg>>

\* s.rcServers = rc
UpdaterSetRC ==
    /\ updater.pc = "setRC"
    /\ serverImpl' = [serverImpl EXCEPT !.rcServers = updater.rc]
    /\ updater' = [updater EXCEPT !.pc = "sleep"]
    /\ UNCHANGED <<algorithms, setConfig, selection, exceptCfg>>

\* <-time.NewTimer(config.ServerUpdateInterval).C
UpdaterSleep ==
    /\ updater.pc = "sleep"
    /\ updater' = [updater EXCEPT !.pc = "getConfig"]
    /\ UNCHANGED <<serverImpl, algorithms, setConfig, selection, exceptCfg>>

\* SetConfig(config) with a freshly loaded config:
\* config.Algorithm.UpdateStableServerList(s.stableServers)
SetConfigStable ==
    /\ setConfig.pc = "idle"
    /\ setConfig.config < MaxConfigs
    /\ algorithms' = [algorithms EXCEPT ![setConfig.config + 1].stable = serverImpl.stableServers]
    /\ setConfig' = [pc |-> "updateRC", config |-> setConfig.config + 1]
    /\ UNCHANGED <<serverImpl, updater, selection, exceptCfg>>

\* config.Algorithm.UpdateRCServerList(s.rcServers)
SetConfigRC ==
    /\ setConfig.pc = "updateRC"
    /\ algorithms' = [algorithms EXCEPT ![setConfig.config].rc = serverImpl.rcServers]
    /\ setConfig' = [setConfig EXCEPT !.pc = "swap"]
    /\ UNCHANGED <<serverImpl, updater, selection, exceptCfg>>

\* atomic.SwapPointer(&s.config, config)
SetConfigSwap ==
    /\ setConfig.pc = "swap"
    /\ serverImpl' = [serverImpl EXCEPT !.config = setConfig.config]
    /\ setConfig' = [setConfig EXCEPT !.pc = "idle"]
    /\ UNCHANGED <<algorithms, updater, selection, exceptCfg>>

\* a request takes s.getConfig() and selects a server on its Algorithm;
\* quiet: no list update and no SetConfig is under way
Select ==
    /\ selection' = [config |-> serverImpl.config,
                     stable |-> algorithms[serverImpl.config].stable,
                     rc |-> algorithms[serverImpl.config].rc,
                     stableServers |-> serverImpl.stableServers,
                     rcServers |-> serverImpl.rcServers,
                     quiet |-> updater.pc \in {"sleep", "getConfig"} /\ setConfig.pc = "idle"]
    /\ UNCHANGED <<serverImpl, algorithms, updater, setConfig, exceptCfg>>

CfgInit ==
    /\ CfgIdle
    /\ BalancerIdle
    /\ ThrottleIdle
    /\ SendIdle
    /\ DiffIdle
    /\ OvrIdle
    /\ ConnIdle
    /\ Pkt6Idle
    /\ Pkt4Idle
    /\ SockIdle /\ RawIdle /\ FsrcIdle /\ DsrvIdle

CfgNext ==
    \/ \E stable \in SourcedStable, rc \in SourcedRC : UpdaterSource(stable, rc)
    \/ UpdaterSourceError
    \/ UpdaterUpdateStable
    \/ UpdaterSetStable
    \/ UpdaterUpdateRC
    \/ UpdaterSetRC
    \/ UpdaterSleep
    \/ SetConfigStable
    \/ SetConfigRC
    \/ SetConfigSwap
    \/ Select

CfgSpec == CfgInit /\ [][CfgNext]_vars

----------------------------------------------------------------------------
(* lib/handler.go handleConnection, lib/server.go ListenAndServe, lib/log.go *)
(* and glog_logger.go                                                      *)

\* PersonalizedLogger.Log for an error record with this peer: glogLogger
\* reads msg.Peer.IP, a nil pointer dereference when peer is nil; another
\* logger is taken not to look into the peer
LoggerPanics(logger, peerIsNil) == logger = "glog" /\ peerIsNil

\* a goroutine body with no deferred recover: a panic ends the process
HandlerEndNoRecover(panicked, logged) ==
    [process |-> IF panicked THEN "crashed" ELSE "running", logged |-> logged]

\* the deferred function of the goroutine: recover() and LogErr(ErrPanic)
HandlerEnd(panicked, logged) ==
    [process |-> "running",
     logged |-> IF panicked THEN Append(logged, ErrPanic) ELSE logged]

\* counting the error records a goroutine hands to the logger
RECURSIVE CountAll(_, _)
CountAll(counts, logged) ==
    IF logged = <<>> THEN counts
    ELSE CountAll([counts EXCEPT ![Head(logged)] = @ + 1], Tail(logged))

\* buffer := bufPool.Get().([]byte)
ConnGet(b) ==
    /\ process = "running"
    /\ listener.pc = "get"
    /\ listener.reads < MaxReads
    /\ bufPool[b].holder = "pool"
    /\ bufPool' = [bufPool EXCEPT ![b].holder = "listener", ![b].puts = 0]
    /\ listener' = [listener EXCEPT !.pc = "read", !.buffer = b, !.reads = @ + 1]
    /\ UNCHANGED <<process, handlers, records, exceptConn>>

\* ReadFromUDP fails (peer is nil) or returns zero bytes (peer is set):
\* bufPool.Put(buffer), LogErr(ErrRead), return to the loop of ListenAndServe
ConnReadFail(kind) ==
    /\ process = "running"
    /\ listener.pc = "read"
    /\ bufPool' = [bufPool EXCEPT ![listener.buffer].holder = "pool",
                                  ![listener.buffer].puts = @ + 1]
    /\ IF LoggerPanics(listener.logger, kind = "err")
       THEN /\ process' = "crashed"
            /\ listener' = [listener EXCEPT !.pc = "panic", !.failed = @ + 1, !.lastRead = kind]
            /\ UNCHANGED records
       ELSE /\ records' = [records EXCEPT ![ErrRead] = @ + 1]
            /\ listener' = [listener EXCEPT !.pc = "get", !.buffer = 0, !.failed = @ + 1,
                                            !.lastRead = kind]
            /\ UNCHANGED process
    /\ UNCHANGED <<handlers, exceptConn>>

\* ReadFromUDP returns a datagram: go func() { ... }()
ConnReadOK(w) ==
    /\ process = "running"
    /\ listener.pc = "read"
    /\ handlers[w].pc = "free"
    /\ handlers' = [v \in Workers |->
                       IF v = w
                       THEN [NoHandler EXCEPT !.pc = "handle", !.buffer = listener.buffer,
                                              !.intact = TRUE]
                       ELSE IF handlers[v].pc = "recover" /\ handlers[v].buffer = listener.buffer
                            THEN [handlers[v] EXCEPT !.intact = FALSE]
                            ELSE handlers[v]]
    /\ bufPool' = [bufPool EXCEPT ![listener.buffer].holder = w]
    /\ listener' = [listener EXCEPT !.pc = "get", !.buffer = 0, !.lastRead = "ok"]
    /\ UNCHANGED <<process, records, exceptConn>>

\* handleRawPacketV4 / handleRawPacketV6 returns: the packet was sent
\* (outcome "ok") or dropped with one error record
HandleRawPacket(w, outcome) ==
    /\ process = "running"
    /\ handlers[w].pc = "handle"
    /\ handlers' = [handlers EXCEPT ![w].pc = "deferred",
                                    ![w].logged = IF outcome = "ok" THEN <<>> ELSE <<outcome>>]
    /\ UNCHANGED <<process, listener, bufPool, records, exceptConn>>

\* handleRawPacketV4 / handleRawPacketV6 panics
HandleRawPacketPanic(w) ==
    /\ process = "running"
    /\ handlers[w].pc = "handle"
    /\ handlers' = [handlers EXCEPT ![w].pc = "deferred", ![w].panicked = TRUE]
    /\ UNCHANGED <<process, listener, bufPool, records, exceptConn>>

\* selectDestinationServer calls roundRobin.selectRatioBasedDhcpServer, which
\* waits for the read lock while holding the write lock (SelfBlocked)
HandleRawPacketBlock(w) ==
    /\ process = "running"
    /\ handlers[w].pc = "handle"
    /\ listener.algorithm = "rr"
    /\ handlers' = [handlers EXCEPT ![w].pc = "blocked"]
    /\ UNCHANGED <<process, listener, bufPool, records, exceptConn>>

\* the deferred function, first statement: bufPool.Put(buffer); a goroutine
\* that did not panic ends here (recover() returns nil)
HandlerDeferred(w) ==
    /\ process = "running"
    /\ handlers[w].pc = "deferred"
    /\ bufPool' = [bufPool EXCEPT ![handlers[w].buffer].holder = "pool",
                                  ![handlers[w].buffer].puts = @ + 1]
    /\ IF handlers[w].panicked
       THEN /\ handlers' = [handlers EXCEPT ![w].pc = "recover"]
            /\ UNCHANGED <<process, records>>
       ELSE LET e == HandlerEnd(FALSE, handlers[w].logged)
            IN  /\ process' = e.process
                /\ handlers' = [handlers EXCEPT ![w].pc = "free", ![w].logged = e.logged,
                                                ![w].intact = FALSE]
                /\ records' = CountAll(records, e.logged)
    /\ UNCHANGED <<listener, exceptConn>>

\* the deferred function after a panic: recover(), the offending packet
\* buffer[:bytesRead] is reported as the buffer holds it at this step (the
\* goroutine's datagram only if intact), LogErr(ErrPanic)
HandlerRecover(w) ==
    /\ process = "running"
    /\ handlers[w].pc = "recover"
    /\ LET e == HandlerEnd(TRUE, handlers[w].logged)
       IN  /\ process' = e.process
           /\ handlers' = [handlers EXCEPT ![w].pc = "free", ![w].logged = e.logged,
                                           ![w].intact = FALSE]
           /\ records' = CountAll(records, e.logged)
    /\ UNCHANGED <<listener, bufPool, exceptConn>>

ConnInit ==
    /\ \E logger \in {"glog", "custom"}, algorithm \in {"xid", "rr"} : ConnStart(logger, algorithm)
    /\ BalancerIdle
    /\ ThrottleIdle
    /\ SendIdle
    /\ DiffIdle
    /\ OvrIdle
    /\ CfgIdle
    /\ Pkt6Idle
    /\ Pkt4Idle
    /\ SockIdle /\ RawIdle /\ FsrcIdle /\ DsrvIdle

ConnNext ==
    \/ \E b \in Buffers : ConnGet(b)
    \/ \E kind \in {"err", "zero"} : ConnReadFail(kind)
    \/ \E w \in Workers : ConnReadOK(w)
    \/ \E w \in Workers, o \in {"ok", ErrParse, ErrNoServer, ErrConnRate, ErrWrite} :
         HandleRawPacket(w, o)
    \/ \E w \in Workers : HandleRawPacketPanic(w)
    \/ \E w \in Workers : HandleRawPacketBlock(w)
    \/ \E w \in Workers : HandlerDeferred(w)
    \/ \E w \in Workers : HandlerRecover(w)

ConnSpec == ConnInit /\ [][ConnNext]_vars

----------------------------------------------------------------------------
(* unnamed/part_008: Packet6, a DHCPv6 packet as raw bytes.  p[i] in the  *)
(* source is p[i + 1] here; p[a:b] is SubSeq(p, a + 1, b).                 *)

RelayForw == 12
RelayRepl == 13
RelayMessage == 9
Solicit == 1

\* binary.BigEndian.Uint16(p[index : index+2])
Uint16(p, index) == (p[index + 1] * 256) + p[index + 2]
\* binary.BigEndian.PutUint16 of a uint16(n)
PutUint16(n) == <<(n % 65536) \div 256, n % 256>>

\* Type(): (MessageType, error)
Type(p) == IF Len(p) = 0 THEN [err |-> TRUE, t |-> 0] ELSE [err |-> FALSE, t |-> p[1]]
IsRelayType(p) == ~Type(p).err /\ Type(p).t \in {RelayForw, RelayRepl}

\* Hops(): an error for anything but a relay message, else p[1], which is
\* out of range (a panic) when the packet is a single byte
Hops(p) ==
    IF ~IsRelayType(p) THEN [panic |-> FALSE, err |-> TRUE, hops |-> 0]
    ELSE IF Len(p) < 2 THEN [panic |-> TRUE, err |-> FALSE, hops |-> 0]
    ELSE [panic |-> FALSE, err |-> FALSE, hops |-> p[2]]

\* PeerAddr(): p[18:34] of a relay message (of a slice as long as its capacity)
PeerAddr(p) ==
    IF ~IsRelayType(p) THEN [panic |-> FALSE, err |-> TRUE, ip |-> <<>>]
    ELSE IF Len(p) < 34 THEN [panic |-> TRUE, err |-> FALSE, ip |-> <<>>]
    ELSE [panic |-> FALSE, err |-> FALSE, ip |-> SubSeq(p, 19, 34)]

\* the loop of getOption from index on
RECURSIVE GetOptionFrom(_, _, _)
GetOptionFrom(p, option, index) ==
    IF index + 4 < Len(p)
    THEN IF Uint16(p, index) = option
         THEN IF index + 4 >= Len(p) THEN [err |-> TRUE, data |-> <<>>]
              ELSE IF index + 4 + Uint16(p, index + 2) > Len(p) THEN [err |-> TRUE, data |-> <<>>]
              ELSE [err |-> FALSE,
                    data |-> SubSeq(p, index + 5, index + 4 + Uint16(p, index + 2))]
         ELSE GetOptionFrom(p, option, index + 4 + Uint16(p, index + 2))
    ELSE [err |-> TRUE, data |-> <<>>]

\* getOption(option)
GetOption(p, option) ==
    IF Len(p) < 4 THEN [err |-> TRUE, data |-> <<>>]
    ELSE GetOptionFrom(p, option, IF IsRelayType(p) THEN 34 ELSE 4)

\* copy(new[18:34], peer): as many bytes as both hold
CopyPeer(peer) == [i \in 1..16 |-> IF i <= Len(peer) THEN peer[i] ELSE 0]

\* Encapsulate(peer): the relay-forward bytes, or a panic out of Hops()
Encapsulate(p, peer) ==
    IF Hops(p).panic THEN [panic |-> TRUE, bytes |-> <<>>]
    ELSE [panic |-> FALSE,
          bytes |-> <<RelayForw, IF Hops(p).err THEN 0 ELSE (Hops(p).hops + 1) % 256>>
                    \o [i \in 1..16 |-> 0]
                    \o CopyPeer(peer)
                    \o PutUint16(RelayMessage)
                    \o PutUint16(Len(p))
                    \o p]

\* Unwind(): (Packet6, net.IP, error)
Unwind(p) ==
    IF PeerAddr(p).panic THEN [panic |-> TRUE, err |-> FALSE, msg |-> <<>>, peer |-> <<>>]
    ELSE IF PeerAddr(p).err THEN [panic |-> FALSE, err |-> TRUE, msg |-> <<>>, peer |-> <<>>]
    ELSE IF GetOption(p, RelayMessage).err
         THEN [panic |-> FALSE, err |-> TRUE, msg |-> <<>>, peer |-> <<>>]
         ELSE [panic |-> FALSE, err |-> FALSE,
               msg |-> GetOption(p, RelayMessage).data, peer |-> PeerAddr(p).ip]

\* packets: client messages with and without options, relay messages of
\* either type wrapping them with every kind of hop count, and truncated ones
ClientMessages ==
    {<<Solicit, 1, 2, 3>>,
     <<Solicit, 1, 2, 3, 0, 1, 0, 2, 0, 3>>,
     <<11, 9, 9, 9, 0, RelayMessage, 0, 1, 7>>}
HopCounts == {0, 1, 7, 31, 32, 127, 128, 254, 255}
RelayOf(type, hops, peer, inner) ==
    <<type, hops>> \o [i \in 1..16 |-> 0] \o peer \o PutUint16(RelayMessage)
    \o PutUint16(Len(inner)) \o inner
Packets6 ==
    ClientMessages
    \cup {RelayOf(t, h, IPv6(2), m) : t \in {RelayForw, RelayRepl}, h \in HopCounts,
                                        m \in ClientMessages}
    \cup {<<>>, <<Solicit>>, <<RelayForw>>, <<RelayRepl>>, <<RelayForw, 255>>, <<RelayRepl, 3, 0>>}
Peers6 == {IPv6(1), IPv4in6(1)}

\* relayed := p.Encapsulate(peer.IP), unwound by the receiver with Unwind()
EncapsulateCall ==
    /\ ~pkt6.done
    /\ LET e == Encapsulate(pkt6.p, pkt6.peer)
       IN  pkt6' = [pkt6 EXCEPT !.done = TRUE, !.enc = e,
                                !.unw = IF e.panic
                                        THEN [panic |-> TRUE, err |-> FALSE,
                                              msg |-> <<>>, peer |-> <<>>]
                                        ELSE Unwind(e.bytes)]
    /\ UNCHANGED <<pkt4, exceptPkt>>

Packet6Init ==
    /\ \E p \in Packets6, a \in Peers6 : pkt6 = [NoPkt6 EXCEPT !.p = p, !.peer = a]
    /\ Pkt4Idle
    /\ SockIdle /\ RawIdle /\ FsrcIdle /\ DsrvIdle
    /\ BalancerIdle /\ ThrottleIdle /\ SendIdle
    /\ DiffIdle /\ OvrIdle /\ CfgIdle /\ ConnIdle

Packet6Next == EncapsulateCall

Packet6Spec == Packet6Init /\ [][Packet6Next]_vars

----------------------------------------------------------------------------
(* lib/handler.go: handleRawPacketV4, the packet it forwards *)

\* a parsed DHCPv4 packet: the header fields and the options
Packet4(hops, chaddr, options) ==
    [op |-> 1, htype |-> 1, hlen |-> 6, hops |-> hops, xid |-> <<222, 173, 190, 239>>,
     giaddr |-> IPv4(1), chaddr |-> chaddr, options |-> options]

\* packet.SetHopCount(packet.HopCount() + 1): HopCount is a uint8
SetHopCountPlusOne(packet) == [packet EXCEPT !.hops = (packet.hops + 1) % 256]

Packets4 ==
    {Packet4(h, mac, o) : h \in 0..255, mac \in {OverrideMac, OtherMac},
                          o \in {<<>>, <<<<53, 1>>>>}}

\* handleRawPacketV4 up to sendToServer(..., packet.ToBytes(), ...)
HandleRawPacketV4 ==
    /\ ~pkt4.done
    /\ pkt4' = [pkt4 EXCEPT !.done = TRUE, !.forwarded = SetHopCountPlusOne(pkt4.received)]
    /\ UNCHANGED <<pkt6, exceptPkt>>

Packet4Init ==
    /\ \E p \in Packets4 : pkt4 = [NoPkt4 EXCEPT !.received = p]
    /\ Pkt6Idle
    /\ SockIdle /\ RawIdle /\ FsrcIdle /\ DsrvIdle
    /\ BalancerIdle /\ ThrottleIdle /\ SendIdle
    /\ DiffIdle /\ OvrIdle /\ CfgIdle /\ ConnIdle

Packet4Next == HandleRawPacketV4

Packet4Spec == Packet4Init /\ [][Packet4Next]_vars

----------------------------------------------------------------------------
(* unnamed/part_007: handleUpdatedList and makeConnections, with           *)
(* DHCPServer.connect and disconnect of unnamed/part_011.  A socket is a   *)
(* positive number, the nil *net.UDPConn is 0.                             *)

\* a DHCPServer with its conn field
WithConn(s, c) == [Hostname |-> s.Hostname, Address |-> s.Address, Port |-> s.Port, conn |-> c]

\* originalMap[key] after `for _, s := range original { originalMap[key] = s.conn }`:
\* the conn of the last entry with that key, nil when there is none
OriginalConn(original, key) ==
    LET at == {i \in 1..Len(original) : ServerKey(original[i]) = key}
    IN  IF at = {} THEN 0
        ELSE original[CHOOSE i \in at : \A j \in at : j <= i].conn

\* the second loop of makeConnections from entry i on: copy the socket of
\* the key, else new.connect(), whose DialUDP succeeds when dial[i]
RECURSIVE MakeConnectionsFrom(_, _, _, _, _)
MakeConnectionsFrom(original, updated, i, dial, st) ==
    IF i > Len(updated) THEN st
    ELSE LET new == updated[i]
             c == OriginalConn(original, ServerKey(new))
         IN  IF c # 0
             THEN MakeConnectionsFrom(original, updated, i + 1, dial,
                      [st EXCEPT !.servers = Append(st.servers, WithConn(new, c))])
             ELSE IF dial[i]
                  THEN MakeConnectionsFrom(original, updated, i + 1, dial,
                           [servers |-> Append(st.servers, WithConn(new, st.next + 1)),
                            next |-> st.next + 1,
                            opened |-> st.opened \cup {[id |-> st.next + 1,
                                                        key |-> ServerKey(new)]}])
                  ELSE MakeConnectionsFrom(original, updated, i + 1, dial,
                           [st EXCEPT !.servers = Append(st.servers, WithConn(new, 0))])

MakeConnections(original, updated, dial, next) ==
    MakeConnectionsFrom(original, updated, 1, dial,
                        [servers |-> <<>>, next |-> next, opened |-> {}])

\* what a sourcer returns: two host names of one address, and another host
SockServers ==
    {NewDHCPServer("a", IPv4(1), 67), NewDHCPServer("b", IPv4in6(1), 67),
     NewDHCPServer("c", IPv4(2), 67)}
\* the lists a sourcer returns: not empty, no host named twice
SockLists ==
    {l \in SeqsUpTo(SockServers, MaxSockLen) :
        l # <<>> /\ \A i, j \in 1..Len(l) : l[i] = l[j] => i = j}
\* the outcomes of the dials of one update of n servers: all succeed, or
\* the dial for one entry fails
Dials(n) == {[i \in 1..MaxSockLen |-> i # f] : f \in 0..n}

\* a timer that disconnects every server of the old list
RemovedAll(old, new) == old

\* _, removed := diffServersList(old, new): the servers the timer of
\* handleUpdatedList disconnects
Removed(old, new) == DiffServersList(old, new).removed

\* updateServersContinuous with a non-empty list: handleUpdatedList(old, new)
\* (makeConnections on either branch, a timer for the removed servers) and
\* s.stableServers = new
HandleUpdatedList(new, dial) ==
    /\ sockets.next + Len(new) <= MaxConns
    /\ LET r == Removed(sockets.servers, new)
           mk == MakeConnections(sockets.servers, new, dial, sockets.next)
           removed == {r[i].conn : i \in 1..Len(r)} \ {0}
       IN  sockets' = [sockets EXCEPT !.servers = mk.servers,
                                      !.prev = sockets.servers,
                                      !.open = sockets.open \cup mk.opened,
                                      !.next = mk.next,
                                      !.timers = sockets.timers \cup removed]
    /\ UNCHANGED exceptSock

\* handleOverride with a server: a DHCPServer made for this packet
\* (NewDHCPServer in handleHostOverride, in GetServersFromTier),
\* server.connect() and a timer that disconnects it
OverrideConnect(s, dialed) ==
    /\ sockets.next + 1 <= MaxConns
    /\ sockets.override = {}
    /\ sockets' = IF dialed
                  THEN [sockets EXCEPT !.next = sockets.next + 1,
                                       !.override = sockets.override
                                                      \cup {[id |-> sockets.next + 1,
                                                             key |-> ServerKey(s)]},
                                       !.timers = sockets.timers \cup {sockets.next + 1}]
                  ELSE sockets
    /\ UNCHANGED exceptSock

\* time.AfterFunc(config.FreeConnTimeout, ...): disconnect() closes the
\* socket of a removed server, or of the server of an override
TimerDisconnect(c) ==
    /\ c \in sockets.timers
    /\ sockets' = [sockets EXCEPT !.open = {o \in sockets.open : o.id # c},
                                  !.override = {o \in sockets.override : o.id # c},
                                  !.timers = sockets.timers \ {c}]
    /\ UNCHANGED exceptSock

SockInit ==
    /\ SockIdle /\ RawIdle /\ FsrcIdle /\ DsrvIdle
    /\ Pkt6Idle /\ (pkt4 = NoPkt4)
    /\ BalancerIdle /\ ThrottleIdle /\ SendIdle
    /\ DiffIdle /\ OvrIdle /\ CfgIdle /\ ConnIdle

SockNext ==
    \/ \E new \in SockLists : \E dial \in Dials(Len(new)) : HandleUpdatedList(new, dial)
    \/ \E s \in SockServers, dialed \in BOOLEAN : OverrideConnect(s, dialed)
    \/ \E c \in 1..MaxConns : TimerDisconnect(c)

SockSpec == SockInit /\ [][SockNext]_vars

----------------------------------------------------------------------------
(* unnamed/part_009: FileSourcer.GetServersFromTier.  A line of the file   *)
(* is a text, a sequence of the tokens of the override section.            *)

\* strings.Split(text, ":") from token i on, cur the piece being read
RECURSIVE SplitFrom(_, _, _, _)
SplitFrom(text, i, cur, out) ==
    IF i > Len(text) THEN Append(out, cur)
    ELSE IF text[i] = Colon THEN SplitFrom(text, i + 1, <<>>, Append(out, cur))
         ELSE SplitFrom(text, i + 1, Append(cur, text[i]), out)
Split(text) == SplitFrom(text, 1, <<>>, <<>>)

\* strconv.ParseInt(text, 10, 32): decimal digits that fit 32 bits
ParseInt(text) ==
    IF Len(text) = 1 /\ text[1][1] = "num" /\ text[1][2] <= 2147483647
    THEN [err |-> FALSE, n |-> text[1][2]]
    ELSE [err |-> TRUE, n |-> 0]

\* net.LookupHost of the resolver the sourcer runs with: the addresses of a
\* name in the order returned, or an error
LookupHost(hostname) ==
    IF hostname = <<Word(1)>> THEN [err |-> FALSE, ips |-> <<IPv4in6(1), IPv6(1)>>]
    ELSE IF hostname = <<Word(2)>> THEN [err |-> FALSE, ips |-> <<IPv6(2), IPv4in6(2)>>]
    ELSE [err |-> TRUE, ips |-> <<>>]

\* the loop over ips: the first address with To4() != nil for version 4,
\* the first address (To16() is never nil) for version 6, else nil
RECURSIVE PickAddr(_, _, _)
PickAddr(version, ips, i) ==
    IF i > Len(ips) THEN <<>>
    ELSE IF version = 4 /\ To4(ips[i]) # <<>> THEN ips[i]
    ELSE IF version = 6 THEN ips[i]
    ELSE PickAddr(version, ips, i + 1)

\* the body of the scanner loop for one line: the server appended, or
\* nothing when the line is skipped by continue
ServerOfLine(version, text) ==
    LET tokens == Split(text)
        port == IF Len(tokens) = 1 THEN [err |-> FALSE, n |-> 67] ELSE ParseInt(tokens[2])
        hostname == tokens[1]
    IN  IF port.err THEN <<>>
        ELSE IF ParseIP(hostname) # <<>>
             THEN <<NewDHCPServer(hostname, ParseIP(hostname), port.n)>>
             ELSE IF LookupHost(hostname).err THEN <<>>
                  ELSE <<NewDHCPServer(hostname, PickAddr(version, LookupHost(hostname).ips, 1),
                                       port.n)>>

\* GetServersFromTier(path) on the lines of the file at path
RECURSIVE GetServersFromFile(_, _, _, _)
GetServersFromFile(version, file, i, servers) ==
    IF i > Len(file) THEN servers
    ELSE GetServersFromFile(version, file, i + 1, servers \o ServerOfLine(version, file[i]))

\* lines: a name, a name with a port, an IPv4 literal with and without a
\* port, an IPv6 literal, a name that does not resolve, a port that is not
\* a number
FileLines ==
    {<<Word(1)>>,
     <<Word(2)>>,
     <<Word(1), Colon, Num(1067)>>,
     <<Num(10), Dot, Num(0), Dot, Num(0), Dot, Num(9)>>,
     <<Num(10), Dot, Num(0), Dot, Num(0), Dot, Num(9), Colon, Num(547)>>,
     <<Num(8193), Colon, Num(3512), Colon, Num(0), Colon, Num(0), Colon,
       Num(0), Colon, Num(0), Colon, Num(0), Colon, Num(9)>>,
     <<Word(3)>>,
     <<Word(2), Colon, Word(4)>>}
Files == SeqsUpTo(FileLines, MaxFileLines)

\* sourcer.stableServers, err = sourcer.GetServersFromTier(stablePath)
GetServersFromTierCall ==
    /\ ~fsrc.done
    /\ fsrc.version # 0
    /\ fsrc' = [fsrc EXCEPT !.done = TRUE,
                            !.servers = GetServersFromFile(fsrc.version, fsrc.file, 1, <<>>)]
    /\ UNCHANGED exceptFsrc

\* NewFileSourcer(stablePath, rcPath, version)
FsrcInit ==
    /\ \E v \in {4, 6}, f \in Files : fsrc = [NoFsrc EXCEPT !.version = v, !.file = f]
    /\ SockIdle /\ RawIdle /\ DsrvIdle
    /\ Pkt6Idle /\ (pkt4 = NoPkt4)
    /\ BalancerIdle /\ ThrottleIdle /\ SendIdle
    /\ DiffIdle /\ OvrIdle /\ CfgIdle /\ ConnIdle

FsrcNext == GetServersFromTierCall

FsrcSpec == FsrcInit /\ [][FsrcNext]_vars

----------------------------------------------------------------------------
(* handleRawPacketV4 / handleRawPacketV6 and what they call, in the two    *)
(* forms the repository holds: the functions of lib/handler.go and the     *)
(* serverImpl methods of unnamed/part_004, which know the server mode.     *)
(* raw.did is the history of what was done with the datagram, raw.log the  *)
(* error records and raw.success the number of success records;            *)
(* raw.delivered tells whether a write of the forwarded packet succeeded.  *)
(* raw.config is the Config that s.config points to (Configs are numbered  *)
(* as SetConfig publishes them), raw.snapshot the one ListenAndServe gave   *)
(* to handleConnection, raw.used the Configs the request has read.          *)

ErrConnect == "E_CONN"
\* fmt.Sprintf("%T", err) of the error a Handler returns
HandlerErrorType == "*errors.errorString"

Variants == {"lib/handler.go", "unnamed/part_004"}

Datagram(parses, type, inner, clientid, mac) ==
    [parses |-> parses, type |-> type, inner |-> inner, clientid |-> clientid, mac |-> mac]

\* what may arrive: bytes that do not parse, and for DHCPv6 a client
\* message (with and without client id, with and without a MAC to find), a
\* relay-forward and a relay-reply (with and without a message inside)
Datagrams(version) ==
    IF version = 4
    THEN {Datagram(FALSE, "", FALSE, FALSE, FALSE),
          Datagram(TRUE, "bootrequest", TRUE, TRUE, TRUE)}
    ELSE {Datagram(FALSE, "", FALSE, FALSE, FALSE),
          Datagram(TRUE, "solicit", TRUE, TRUE, TRUE),
          Datagram(TRUE, "solicit", TRUE, FALSE, TRUE),
          Datagram(TRUE, "solicit", TRUE, TRUE, FALSE),
          Datagram(TRUE, "relay-forw", TRUE, TRUE, TRUE),
          Datagram(TRUE, "relay-forw", FALSE, FALSE, FALSE),
          Datagram(TRUE, "relay-repl", TRUE, TRUE, TRUE),
          Datagram(TRUE, "relay-repl", FALSE, FALSE, FALSE)}

Did(r, kind, detail) == [r EXCEPT !.did = Append(r.did, <<kind, detail>>)]
\* logger.LogErr(..., errName, err) and return
Drop(r, errName) == [r EXCEPT !.log = Append(r.log, errName), !.pc = "done"]

\* ListenAndServe: the list updater is started unless in server mode
\* (lib/modulo.go:113 starts it always), then the loop of handleConnection,
\* called with s.getConfig() in lib/modulo.go
RawListenAndServe ==
    /\ raw.pc = "listen"
    /\ raw' = [raw EXCEPT !.pc = "parse", !.updating = ~raw.server, !.snapshot = raw.config]
    /\ UNCHANGED exceptRaw

\* SetConfig: atomic.SwapPointer(&s.config, config), at any moment of the
\* handling of the datagram
RawSetConfig ==
    /\ raw.pc \notin {"none", "done"}
    /\ raw.config < MaxConfigs
    /\ raw' = [raw EXCEPT !.config = raw.config + 1]
    /\ UNCHANGED exceptRaw

\* a request that reads s.config wherever it needs the configuration
ConfigOfNow(r) == r.config

\* the Config a step of the request works with: the config parameter of
\* lib/handler.go, s.config as it is at that step in unnamed/part_004
ConfigOf(r) == IF r.variant = "lib/handler.go" THEN r.snapshot ELSE ConfigOfNow(r)

\* the request uses its configuration
UsesConfig(r) == [r EXCEPT !.used = r.used \cup {ConfigOf(r)}]

\* the result of `if err != nil` after FromBytes: lib/handler.go evaluates
\* packet.ToBytes() on the nil packet (a panic), part_004 logs ErrParse
ParseFailure(r) ==
    IF r.variant = "lib/handler.go" THEN [r EXCEPT !.pc = "panicked"] ELSE Drop(r, ErrParse)

\* the goroutine of handleConnection reads config.Version, then
\* packet, err := dhcpv4.FromBytes(buffer) / dhcpv6.FromBytes(buffer)
RawParse ==
    /\ raw.pc = "parse"
    /\ LET r == UsesConfig(raw)
       IN  raw' = IF raw.dgram.parses
                  THEN [Did(r, "parse", "ok") EXCEPT !.pc = "mode"]
                  ELSE ParseFailure(Did(r, "parse", "error"))
    /\ UNCHANGED exceptRaw

\* a routing that does not know the server mode
RouteNoServerMode(r) ==
    IF r.version = 6 /\ r.dgram.type = "relay-repl" THEN "relayrepl" ELSE "extract"

\* a routing that treats a relay-reply as any other message
RouteNoRelayRepl(r) ==
    IF r.server THEN "server" ELSE "extract"

\* where a parsed packet goes: the Handler in server mode, handleV6RelayRepl
\* for a DHCPv6 relay-reply, else on to the selection of a server
Route(r) ==
    IF r.server THEN "server"
    ELSE IF r.version = 6 /\ r.dgram.type = "relay-repl" THEN "relayrepl"
    ELSE "extract"

RawRoute ==
    /\ raw.pc = "mode"
    /\ raw' = [raw EXCEPT !.pc = Route(raw)]
    /\ UNCHANGED exceptRaw

\* handleV4Server / handleV6Server: Handler.ServeDHCPv4 / ServeDHCPv6, a
\* success record for the incoming packet, then an error record and
\* return, or the reply written to the gateway (v4) or the peer (v6) and
\* a success record for the reply
RawServe(err) ==
    /\ raw.pc = "server"
    /\ LET r == [Did(UsesConfig(raw), "handler", "") EXCEPT !.success = raw.success + 1]
       IN  raw' = IF err THEN Drop(r, HandlerErrorType)
                  ELSE [Did(r, "reply", IF raw.version = 4 THEN "giaddr:67" ELSE "peer:547")
                            EXCEPT !.success = r.success + 1, !.pc = "done"]
    /\ UNCHANGED exceptRaw

\* handleV6RelayRepl: DecapsulateRelay, DialUDP to the peer-address of the
\* outer message on port 547 (dialed tells whether it succeeds), one Write
\* of the inner message whose result is not looked at (written tells
\* whether it succeeds), a success record, Close
RawRelayRepl(dialed, written) ==
    /\ raw.pc = "relayrepl"
    /\ raw' = IF ~raw.dgram.inner THEN Drop(Did(raw, "decapsulate", "error"), ErrParse)
              ELSE IF ~dialed THEN Drop(Did(UsesConfig(raw), "decapsulate", "ok"), ErrConnect)
              ELSE [Did(Did(UsesConfig(raw), "decapsulate", "ok"), "write", "peerAddr:547")
                        EXCEPT !.success = raw.success + 1, !.delivered = written,
                               !.pc = "done"]
    /\ UNCHANGED exceptRaw

\* the fields of DHCPMessage: nothing can fail for DHCPv4; for DHCPv6 the
\* inner message of a relay, the client id and the MAC, each missing one
\* dropped with ErrParse
RawExtract ==
    /\ raw.pc = "extract"
    /\ raw' = IF raw.version = 6 /\ ~(raw.dgram.inner /\ raw.dgram.clientid /\ raw.dgram.mac)
              THEN Drop(Did(raw, "extract", "error"), ErrParse)
              ELSE [Did(raw, "extract", "ok") EXCEPT !.pc = "select"]
    /\ UNCHANGED exceptRaw

\* selectDestinationServer: handleOverride, and the balancer when no
\* override gave a server; an error of either is dropped with ErrNoServer
RawSelect(override, err) ==
    /\ raw.pc = "select"
    /\ LET o == Did(UsesConfig(raw), "override", "")
           r == IF override THEN o ELSE Did(o, "balancer", "")
       IN  raw' = IF err THEN Drop(r, ErrNoServer) ELSE [r EXCEPT !.pc = "throttle"]
    /\ UNCHANGED exceptRaw

\* sendToServer: throttle.OK(server.Address.String()), denied is dropped
\* with ErrConnRate
RawThrottle(ok) ==
    /\ raw.pc = "throttle"
    /\ LET r == Did(raw, "throttle", "server.Address")
       IN  raw' = IF ok THEN [r EXCEPT !.pc = "send"] ELSE Drop(r, ErrConnRate)
    /\ UNCHANGED exceptRaw

\* sendToServer: server.sendTo(packet), then ErrWrite or a success record
RawSendTo(ok) ==
    /\ raw.pc = "send"
    /\ raw' = IF ok THEN [Did(raw, "sendTo", "server") EXCEPT !.success = raw.success + 1,
                                                                !.delivered = TRUE,
                                                                !.pc = "done"]
              ELSE Drop(Did(raw, "sendTo", "error"), ErrWrite)
    /\ UNCHANGED exceptRaw

\* the deferred function of the goroutine after a panic: LogErr(ErrPanic)
RawRecover ==
    /\ raw.pc = "panicked"
    /\ raw' = Drop(raw, ErrPanic)
    /\ UNCHANGED exceptRaw

\* NewServer: lib/handler.go has no server mode
RawInit ==
    /\ \E variant \in Variants, version \in {4, 6}, server \in BOOLEAN :
         /\ server => variant = "unnamed/part_004"
         /\ \E d \in Datagrams(version) :
              raw = [NoRaw EXCEPT !.pc = "listen", !.variant = variant, !.version = version,
                                  !.server = server, !.dgram = d]
    /\ SockIdle /\ FsrcIdle /\ DsrvIdle
    /\ Pkt6Idle /\ (pkt4 = NoPkt4)
    /\ BalancerIdle /\ ThrottleIdle /\ SendIdle
    /\ DiffIdle /\ OvrIdle /\ CfgIdle /\ ConnIdle

RawNext ==
    \/ RawListenAndServe
    \/ RawSetConfig
    \/ RawParse
    \/ RawRoute
    \/ \E err \in BOOLEAN : RawServe(err)
    \/ \E dialed, written \in BOOLEAN : RawRelayRepl(dialed, written)
    \/ RawExtract
    \/ \E override, err \in BOOLEAN : RawSelect(override, err)
    \/ \E ok \in BOOLEAN : RawThrottle(ok)
    \/ \E ok \in BOOLEAN : RawSendTo(ok)
    \/ RawRecover

RawSpec == RawInit /\ [][RawNext]_vars

----------------------------------------------------------------------------
(* unnamed/part_011 and unnamed/part_010: one DHCPServer d, as two          *)
(* goroutines use it: a goroutine of handleConnection calling d.sendTo and  *)
(* the function given to time.AfterFunc calling d.disconnect.  d is a       *)
(* server a list update removed (handleUpdatedList) or the destination of   *)
(* an override (handleOverride).  A socket is a positive number, the nil    *)
(* *net.UDPConn is 0; dsrv.send.did lists the dials and writes of the       *)
(* sendTo under way as <<kind, socket, ok>>.                                *)

DsrvVariants == {"unnamed/part_010", "unnamed/part_011"}

\* net.DialUDP inside d.connect(): a new socket, or an error
Dial(d, ok) ==
    IF ok THEN [d EXCEPT !.conn = d.next + 1, !.next = d.next + 1,
                         !.open = d.open \cup {d.next + 1}]
    ELSE d

\* d.connect(): DialUDP only `if d.conn == nil`, else nothing is done
Connect(d, ok) == IF d.conn = 0 THEN Dial(d, ok) ELSE d

\* d.disconnect(): Close and d.conn = nil `if d.conn != nil`
Disconnect(d) ==
    IF d.conn # 0 THEN [d EXCEPT !.open = d.open \ {d.conn}, !.conn = 0] ELSE d

\* a note of what sendTo did
Noted(d, kind, sock, ok) == [d EXCEPT !.send.did = Append(d.send.did, <<kind, sock, ok>>)]
\* sendTo returns
Returns(d, result) == [d EXCEPT !.send.pc = "done", !.send.result = result]

\* a goroutine calls d.sendTo(packet)
DsrvSendTo ==
    /\ dsrv.send.pc \in {"none", "done"}
    /\ dsrv.sends < (IF dsrv.origin = "override" THEN 1 ELSE MaxSends)
    /\ dsrv' = [dsrv EXCEPT !.sends = dsrv.sends + 1,
                            !.send = [NoSendTo EXCEPT !.pc = "check"]]
    /\ UNCHANGED exceptDsrv

\* `if d.conn == nil`: part_011 calls d.connect() and returns its error,
\* part_010 returns an error at once
DsrvCheck(dialOK) ==
    /\ dsrv.send.pc = "check"
    /\ dsrv' = IF dsrv.conn # 0 THEN [dsrv EXCEPT !.send.pc = "write1"]
               ELSE IF dsrv.variant = "unnamed/part_010" THEN Returns(dsrv, "err")
               ELSE LET c == Connect(dsrv, dialOK)
                        n == Noted(c, "dial", c.conn, dialOK)
                    IN  IF dialOK THEN [n EXCEPT !.send.pc = "write1"] ELSE Returns(n, "err")
    /\ UNCHANGED exceptDsrv

\* d.conn.Write(packet), d.conn read without the lock: on a nil conn (the
\* timer ran since the check) the call fails or panics
WriteOn(d, out, then) ==
    IF out = "panic" THEN Returns(d, "panic")
    ELSE LET n == Noted(d, "write", d.conn, out = "ok")
         IN  IF out = "ok" THEN Returns(n, "ok")
             ELSE IF then = "done" THEN Returns(n, "err")
             ELSE [n EXCEPT !.send.pc = then]

WriteOutcomes(d) == IF d.conn = 0 THEN {"err", "panic"} ELSE {"ok", "err"}

\* the first d.conn.Write(packet)
DsrvWrite1(out) ==
    /\ dsrv.send.pc = "write1"
    /\ out \in WriteOutcomes(dsrv)
    /\ dsrv' = WriteOn(dsrv, out, "reconnect")
    /\ UNCHANGED exceptDsrv

\* "if failed, try to re-open socket and try again once": d.connect()
DsrvReconnect(dialOK) ==
    /\ dsrv.send.pc = "reconnect"
    /\ LET c == Connect(dsrv, dialOK)
           dialed == dsrv.conn = 0
           n == Noted(c, IF dialed THEN "dial" ELSE "connect", c.conn, dialed => dialOK)
       IN  dsrv' = IF dialed /\ ~dialOK THEN Returns(n, "err")
                   ELSE [n EXCEPT !.send.pc = "write2"]
    /\ UNCHANGED exceptDsrv

\* the second d.conn.Write(packet)
DsrvWrite2(out) ==
    /\ dsrv.send.pc = "write2"
    /\ out \in WriteOutcomes(dsrv)
    /\ dsrv' = WriteOn(dsrv, out, "done")
    /\ UNCHANGED exceptDsrv

\* FreeConnTimeout has elapsed: the function given to time.AfterFunc runs
\* d.disconnect()
DsrvTimer ==
    /\ dsrv.timer = "pending"
    /\ dsrv' = [Disconnect(dsrv) EXCEPT !.timer = "fired"]
    /\ UNCHANGED exceptDsrv

\* d when its close timer has just been set: a server of the old list, with
\* the socket makeConnections gave it (or none, its dial failed), removed
\* by handleUpdatedList; or the server of an override after
\* server.connect() in handleOverride, whose error is not looked at
DsrvInit ==
    /\ \E origin \in {"removed", "override"}, variant \in DsrvVariants, dialOK \in BOOLEAN :
         dsrv = [Connect([NoDsrv EXCEPT !.origin = origin, !.variant = variant], dialOK)
                     EXCEPT !.timer = "pending"]
    /\ SockIdle /\ RawIdle /\ FsrcIdle
    /\ Pkt6Idle /\ Pkt4Idle
    /\ BalancerIdle /\ ThrottleIdle /\ SendIdle
    /\ DiffIdle /\ OvrIdle /\ CfgIdle /\ ConnIdle

DsrvNext ==
    \/ DsrvSendTo
    \/ \E dialOK \in BOOLEAN : DsrvCheck(dialOK)
    \/ \E out \in {"ok", "err", "panic"} : DsrvWrite1(out)
    \/ \E dialOK \in BOOLEAN : DsrvReconnect(dialOK)
    \/ \E out \in {"ok", "err", "panic"} : DsrvWrite2(out)
    \/ DsrvTimer

DsrvSpec == DsrvInit /\ [][DsrvNext]_vars

----------------------------------------------------------------------------
(* Properties of the balancers *)

StableServers == Range(Ascending(MaxStable))
RCServers == Range(RCList(MaxRC))

\* C1: for every non-empty list L and message m the sticky balancer's
\* selectServerFromList(L, m) returns L[fnv1a32(m.ClientID) mod |L|] and no
\* error; on the four client ids of Test_Hash and a list of four servers
\* with ports 0..3 that is the server with port 0, 1, 2, 3.
C1_SelectFromListIsHashModulo ==
    \A t \in Workers :
        (alg = "xid" /\ pc[t] = "done" /\ Len(call[t].list) > 0) =>
            /\ call[t].err = ""
            /\ call[t].server =
                 call[t].list[HashMod(Fnv32a(call[t].msg.ClientID), Len(call[t].list)) + 1]
            /\ \A i \in 1..4 :
                 (call[t].msg.ClientID = TestIDs[i] /\ call[t].list = Ascending(4))
                     => call[t].server.Port = i - 1

C1_Witness ==
    \E t \in Workers :
        /\ alg = "xid" /\ pc[t] = "done" /\ call[t].op = "list"
        /\ call[t].list = Ascending(4)
        /\ call[t].msg.ClientID = TestIDs[3]
        /\ call[t].server = Srv(3, 2)

C3_StickyPerClient ==
    \A t1, t2 \in Workers :
        ( /\ alg = "xid"
          /\ pc[t1] = "done" /\ pc[t2] = "done"
          /\ call[t1].op = "ratio" /\ call[t2].op = "ratio"
          /\ call[t1].fixed /\ call[t2].fixed
          /\ call[t1].msg.ClientID = call[t2].msg.ClientID )
        => (call[t1].server = call[t2].server /\ call[t1].err = call[t2].err)

C3_Witness ==
    \E t1, t2 \in Workers :
        /\ t1 # t2 /\ alg = "xid"
        /\ pc[t1] = "done" /\ pc[t2] = "done"
        /\ call[t1].op = "ratio" /\ call[t2].op = "ratio"
        /\ call[t1].fixed /\ call[t2].fixed
        /\ call[t1].msg.ClientID = call[t2].msg.ClientID
        /\ call[t1].msg.XID # call[t2].msg.XID
        /\ Len(bal.stable) = MaxStable
        /\ call[t1].server # NilServer

\* a goroutine that waits for the read lock while it holds the write lock
\* itself: nothing can release the lock, the call never returns
SelfBlocked(t) == pc[t] = "rrRLock" /\ lock.writer = t

\* C4: for both balancers, a selectRatioBasedDhcpServer call whose pool is
\* empty returns (it is never left waiting for a lock its own goroutine
\* holds), and what it returns is an error and no server.
C4_EmptyPoolReturnsError ==
    \A t \in Workers :
        (call[t].op = "ratio" /\ call[t].list = <<>>) =>
            /\ ~SelfBlocked(t)
            /\ pc[t] = "done" => (call[t].err # "" /\ call[t].server = NilServer)

\* C5: round-robin, rcRatio = 0: the k-th selectRatioBasedDhcpServer call
\* (k = 0, 1, ...) after updateStableServerList(L), |L| = N >= 1, returns
\* (it is never left waiting for a lock its own goroutine holds), and what
\* it returns is L[k mod N].
C5_RRVisitsInOrder ==
    \A t \in Workers :
        (alg = "rr" /\ bal.rcRatio = 0 /\ call[t].op = "ratio" /\ Len(call[t].list) >= 1) =>
            /\ ~SelfBlocked(t)
            /\ pc[t] = "done" =>
                 call[t].server = call[t].list[(call[t].k % Len(call[t].list)) + 1]

\* C25: every round-robin selectRatioBasedDhcpServer call terminates under
\* any interleaving: the call is never left waiting for the balancer's lock
\* while its own goroutine holds that lock.
C25_RatioSelectionTerminates ==
    \A t \in Workers : (alg = "rr" /\ call[t].op = "ratio") => ~SelfBlocked(t)

\* the goroutines that are between rr.iterList = rr.iterList % len(list) and
\* rr.iterList++ of selectServerFromList
InCursorSection == {t \in Workers : alg = "rr" /\ pc[t] \in {"rrIdx", "rrInc"}}

\* C26: under any interleaving of round-robin selections and list updates
\* the mutations of the cursor are serialized (no two goroutines are inside
\* the modulo / read / increment of iterList at once) and the index used to
\* read a list is within [0, len(list)).
C26_CursorSerializedAndInRange ==
    /\ Cardinality(InCursorSection) <= 1
    /\ \A t \in Workers : pc[t] = "rrIdx" => bal.iterList < Len(call[t].list)
    /\ \A t \in Workers : call[t].err # "panic: index out of range"

\* C27: round-robin, after any selections and list updates: a selection
\* from a pool whose current list is not empty returns, without an
\* out-of-range access, an element of the list the pool holds now.
C27_RRSelectsFromCurrentList ==
    \A t \in Workers :
        (alg = "rr" /\ call[t].op = "ratio" /\ call[t].list # <<>>) =>
            /\ call[t].list \in {bal.stable, bal.rc}
            /\ call[t].err = ""
            /\ ~(pc[t] = "rrRLock" /\ lock.writer = t)
            /\ pc[t] = "done" => call[t].server \in (Range(bal.stable) \cup Range(bal.rc))

\* C28: the round-robin stable and rc cursors are independent: a list
\* update of one pool leaves the other pool's cursor unchanged, and a
\* selection advances the cursor of its own pool only and goes on to return,
\* so that the rotation of the other pool is where it was.
C28_CursorsIndependent ==
    [][/\ \A l \in RCLists :
            RRUpdateServerList("rc", l) => bal'.iterStable = bal.iterStable
       /\ \A l \in StableLists :
            RRUpdateServerList("stable", l) => bal'.iterRC = bal.iterRC
       /\ \A t \in Workers, cid \in ClientIDs :
            RRSelectRatioBasedDhcpServer(t, cid) =>
                /\ bal'.iterStable = bal.iterStable \/ bal'.iterRC = bal.iterRC
                /\ ~(pc'[t] = "rrRLock" /\ lock'.writer = t)]_vars

----------------------------------------------------------------------------
(* Properties of the throttle *)

\* the OK = true results i..j of the watched key fit the rate: their number
\* is at most R * T + R, T the seconds from the first to the last of them
WithinRate(i, j) ==
    (j - i + 1) * TicksPerSec
        <= thr.maxRatePerItem * (okHist[j].t - okHist[i].t) + thr.maxRatePerItem * TicksPerSec

\* C6 as claimed: with MaxRatePerItem = R > 0, for any capacity, cache rate
\* and interleaving of OK calls on any keys, the OK = true results of one
\* key within any window of T seconds number at most R * T + R.
C6_RateBoundAnyWindow ==
    thr.kind = "lru" =>
        \A i, j \in 1..Len(okHist) : i <= j => WithinRate(i, j)

\* C6 amended: the bound holds for every window over which the key's
\* limiter stays in the LRU, that is no result of the window but the first
\* comes from a limiter created anew for the key.
C6_RateBoundWhileCached ==
    thr.kind = "lru" =>
        \A i, j \in 1..Len(okHist) :
            (i <= j /\ \A m \in (i + 1)..j : ~okHist[m].fresh) => WithinRate(i, j)

C6_Witness ==
    /\ thr.kind = "lru"
    /\ thrRet.key = WatchedKey /\ ~thrRet.ok /\ thrRet.err = ErrRate
    /\ Len(okHist) >= 2
    /\ ~okHist[Len(okHist)].fresh

\* C7: a throttle created with MaxRatePerItem <= 0 answers OK = true for
\* every key after any calls, and its length stays 0.
C7_DummyKeepsNothing ==
    thr.kind = "dummy" => (thrRet.ok /\ ThrottleLen(thr) = 0)

\* C8: the number of limiters the throttle holds never exceeds the capacity,
\* and equals it once more than capacity distinct keys have been admitted.
C8_LRUBounded ==
    thr.kind = "lru" =>
        /\ ThrottleLen(thr) <= thr.capacity
        /\ Cardinality(admitted) > thr.capacity => ThrottleLen(thr) = thr.capacity

C8_Witness ==
    /\ thr.kind = "lru" /\ thr.capacity = 2
    /\ Cardinality(admitted) > thr.capacity
    /\ ThrottleLen(thr) = 2

\* C9: an OK call for a key that is not in the LRU, made when the cache
\* limiter has no token, answers false with the cache-rate error, creates
\* no limiter, evicts nothing and leaves every limiter in the LRU as it was.
C9_AdmissionDeniedLeavesCache ==
    [][ \A key \in ThrottleKeys :
          ( /\ OKCall(key)
            /\ thr.kind = "lru"
            /\ key \notin LRUKeys(thr.lru)
            /\ ~LimiterAllow(thr.cacheLimiter, now).ok )
          => (~thrRet'.ok /\ thrRet'.err = ErrCacheRate /\ thr'.lru = thr.lru) ]_vars

C9_Witness ==
    /\ thr.kind = "lru"
    /\ ~thrRet.ok /\ thrRet.err = ErrCacheRate
    /\ thrRet.key \notin LRUKeys(thr.lru)
    /\ Len(thr.lru) >= 1

----------------------------------------------------------------------------
(* Properties of sendToServer *)

\* C10: a packet is written to a server only after throttle.OK(server
\* address) answered true for it; when the answer is false nothing is written
\* and the packet is dropped with an E_CONN_RATE record naming the server.
C10_WriteOnlyAfterThrottleOK ==
    \A t \in Workers :
        /\ req[t].written > 0 => req[t].ok
        /\ spc[t] = "sendTo" => req[t].ok
        /\ (spc[t] = "done" /\ ~req[t].ok) =>
              /\ req[t].written = 0
              /\ req[t].log = ErrConnRate
              /\ req[t].logServer = req[t].server

C10_Witness ==
    \E t1, t2 \in Workers :
        /\ spc[t1] = "done" /\ ~req[t1].ok /\ req[t1].log = ErrConnRate
        /\ spc[t2] = "done" /\ req[t2].ok /\ req[t2].written = 1
        /\ req[t1].server.Address = req[t2].server.Address

----------------------------------------------------------------------------
(* Properties of diffServersList *)

KeysOf(list) == {ServerKey(list[i]) : i \in 1..Len(list)}
AbsentFrom(list, other) == SelectSeq(list, LAMBDA s : ServerKey(s) \notin KeysOf(other))

\* C11: diffServersList(original, updated) returns as added exactly the
\* entries of updated whose (address string, port) key is absent from
\* original, as removed exactly the entries of original whose key is absent
\* from updated; so diff(L, L) is (empty, empty), diff(empty, L) is
\* (L, empty) and diff(L, empty) is (empty, L).
C11_DiffIsKeyDifference ==
    diff.done =>
        /\ diff.added = AbsentFrom(diff.updated, diff.original)
        /\ diff.removed = AbsentFrom(diff.original, diff.updated)
        /\ diff.original = diff.updated => (diff.added = <<>> /\ diff.removed = <<>>)
        /\ diff.original = <<>> => (diff.added = diff.updated /\ diff.removed = <<>>)
        /\ diff.updated = <<>> => (diff.added = <<>> /\ diff.removed = diff.original)

C11_Witness ==
    /\ diff.done
    /\ Len(diff.original) = 2 /\ Len(diff.updated) = 2
    /\ Len(diff.added) = 1 /\ Len(diff.removed) = 1
    /\ \E i, j \in 1..2 : /\ diff.original[i] # diff.updated[j]
                          /\ ServerKey(diff.original[i]) = ServerKey(diff.updated[j])

----------------------------------------------------------------------------
(* Properties of the overrides *)

HasOverride == ovr.message.Mac = OverrideMac
Expiration == ovr.override.Expiration
\* the expiration is not empty and does not parse, or lies before the clock
DeadOverride ==
    /\ Expiration # <<>>
    /\ \/ ParseExpiration(Expiration).err
       \/ ParseExpiration(Expiration).t < ovr.now
\* the expiration is absent or in the future
LiveOverride ==
    \/ Expiration = <<>>
    \/ ~ParseExpiration(Expiration).err /\ ParseExpiration(Expiration).t > ovr.now

\* C12: an override whose expiration is not empty and does not parse, or
\* lies before the current time, is a miss: no tier lookup, no list
\* selection, no connection, and the destination and error are those of the
\* balancer's ratio-based selection, as for a MAC with no override.
C12_ExpiredOverrideIsMiss ==
    (ovr.done /\ HasOverride /\ DeadOverride) =>
        /\ ovr.res.ratioBased
        /\ ~ovr.res.tierLookup /\ ~ovr.res.fromList /\ ~ovr.res.connect
        /\ ovr.res.server = SelectRatioBased(ovr.b, ovr.message).server
        /\ ovr.res.err = SelectRatioBased(ovr.b, ovr.message).err
        /\ ovr.res = SelectDestinationServer(ovr.version, <<>>, ovr.b, ovr.message, ovr.now)

C12_Witness ==
    /\ ovr.done /\ HasOverride
    /\ ~ParseExpiration(Expiration).err /\ ParseExpiration(Expiration).t < ovr.now
    /\ ParseExpiration(Expiration).t = -60
    /\ Len(ovr.override.Host) = 7 /\ ovr.override.Tier = "tier1"
    /\ ovr.res.ratioBased /\ ovr.res.server \in RCServers

\* C13: a live override whose host is an IP literal sends the packet to
\* that host, port 67 for v4 and 547 for v6, whatever the tier field says,
\* and neither the tier lookup nor the balancer is consulted.
C13_HostOverrideWins ==
    (ovr.done /\ HasOverride /\ LiveOverride /\ ParseIP(ovr.override.Host) # <<>>) =>
        /\ ovr.res.err = ""
        /\ ovr.res.server = NewDHCPServer(ovr.override.Host, ParseIP(ovr.override.Host),
                                          IF ovr.version = 4 THEN 67 ELSE 547)
        /\ ~ovr.res.tierLookup /\ ~ovr.res.fromList /\ ~ovr.res.ratioBased

C13_Witness ==
    /\ ovr.done /\ HasOverride /\ ovr.version = 6
    /\ Expiration # <<>> /\ ~ParseExpiration(Expiration).err
    /\ ParseExpiration(Expiration).t = 60 /\ ovr.now = 30
    /\ ovr.override.Tier = "tier1"
    /\ ovr.res.server.Port = 547
    /\ To4(ovr.res.server.Address) = <<10, 0, 0, 9>>

\* the override names a host that is no IP literal, or no host and a tier
\* whose lookup fails or gives no server
Unresolvable ==
    \/ Len(ovr.override.Host) > 0 /\ ParseIP(ovr.override.Host) = <<>>
    \/ /\ Len(ovr.override.Host) = 0
       /\ ovr.override.Tier # ""
       /\ \/ GetServersFromTier(ovr.override.Tier).err # ""
          \/ GetServersFromTier(ovr.override.Tier).servers = <<>>

\* C35: a live override that cannot be resolved (host not an IP literal,
\* tier lookup failing or returning no servers) gives an error and no
\* server, so the packet is dropped with an error record, and the balancer
\* is not consulted; of the live overrides only the one with neither host
\* nor tier falls through to the balancer.
C35_UnresolvedOverrideDrops ==
    (ovr.done /\ HasOverride /\ LiveOverride) =>
        /\ Unresolvable =>
             /\ ovr.res.err # "" /\ ovr.res.server = NilServer
             /\ ~ovr.res.ratioBased /\ ~ovr.res.connect
        /\ ovr.res.ratioBased <=> (Len(ovr.override.Host) = 0 /\ ovr.override.Tier = "")

\* a live override to a tier that has no servers, with a balancer that
\* has servers: an error, the balancer not asked
C35_Witness ==
    /\ ovr.done /\ HasOverride /\ LiveOverride
    /\ Len(ovr.override.Host) = 0 /\ ovr.override.Tier = "empty"
    /\ ovr.b.stable # <<>>
    /\ ovr.res.err = "Sourcer returned no servers" /\ ~ovr.res.ratioBased

----------------------------------------------------------------------------
(* Properties of the config swap *)

\* C14: a selection on a balancer published by SetConfig, made while no
\* list update and no SetConfig is under way, finds the balancer holding
\* the server's current stable and rc lists.
C14_NewBalancerHoldsCurrentLists ==
    (selection.config > 0 /\ selection.quiet) =>
        /\ selection.stable = selection.stableServers
        /\ selection.rc = selection.rcServers

\* C38: a reconcile cycle never replaces a pool by an empty list: the
\* step of a cycle that finds the sourced stable (or rc) list empty leaves
\* the server's and every balancer's lists as they are, and no step makes
\* a non-empty list of the server or of a balancer empty.
C38_NeverReplacedByEmpty ==
    [][/\ (updater.pc = "updateStable" /\ updater.stable = <<>> /\ updater' # updater) =>
            (serverImpl' = serverImpl /\ algorithms' = algorithms)
       /\ (updater.pc = "updateRC" /\ updater.rc = <<>> /\ updater' # updater) =>
            (serverImpl' = serverImpl /\ algorithms' = algorithms)
       /\ serverImpl.stableServers # <<>> => serverImpl'.stableServers # <<>>
       /\ serverImpl.rcServers # <<>> => serverImpl'.rcServers # <<>>
       /\ \A c \in 0..MaxConfigs :
            /\ algorithms[c].stable # <<>> => algorithms'[c].stable # <<>>
            /\ algorithms[c].rc # <<>> => algorithms'[c].rc # <<>>]_vars

\* a cycle has passed over an empty sourced stable list while the server
\* and the balancer of the cycle's config held a non-empty one
C38_Witness ==
    /\ updater.pc = "updateRC" /\ updater.stable = <<>>
    /\ serverImpl.stableServers # <<>>
    /\ algorithms[updater.config].stable = serverImpl.stableServers

\* C39: whenever SetConfig and a reconcile cycle have overlapped, once both
\* have finished the balancer of the published config holds the lists the
\* cycle fetched last (the server's stableServers and rcServers): no update
\* stays behind on the balancer that was replaced.
C39_NoUpdateLostAcrossSetConfig ==
    (updater.pc = "sleep" /\ setConfig.pc = "idle") =>
        /\ algorithms[serverImpl.config].stable = serverImpl.stableServers
        /\ algorithms[serverImpl.config].rc = serverImpl.rcServers

----------------------------------------------------------------------------
(* Properties of handleConnection *)

\* C15: a panic raised while a goroutine handles a datagram is recovered in
\* that goroutine: when the goroutine ends the process is still running,
\* the listener and the other goroutines are as they were, and the panic
\* has produced exactly one record, of kind E_PANIC.
C15_PanicStaysInWorker ==
    [][\A w \in Workers :
         (handlers[w].pc = "recover" /\ handlers[w].panicked /\ handlers'[w].pc = "free") =>
            /\ process' = "running"
            /\ listener' = listener
            /\ \A v \in Workers \ {w} : handlers'[v] = handlers[v]
            /\ bufPool' = bufPool
            /\ handlers'[w].logged = <<ErrPanic>>
            /\ records' = [records EXCEPT ![ErrPanic] = @ + 1]]_vars

C15_Witness ==
    \E w, v \in Workers :
        /\ w # v
        /\ handlers[w].pc = "free" /\ handlers[w].panicked
        /\ handlers[v].pc = "handle"
        /\ listener.pc = "read"
        /\ records[ErrPanic] = 1
        /\ process = "running"

\* C16: every buffer taken from the pool is returned exactly once: no buffer
\* is put back twice, and a buffer out of the pool is with the listener
\* that is reading into it or with a goroutine that will end and put it back.
C16_BufferReturnedOnce ==
    \A b \in Buffers :
        /\ bufPool[b].puts <= 1
        /\ bufPool[b].holder = "listener" => (listener.pc = "read" /\ listener.buffer = b)
        /\ bufPool[b].holder \in Workers =>
              /\ handlers[bufPool[b].holder].buffer = b
              /\ handlers[bufPool[b].holder].pc \in {"handle", "deferred"}

\* C17: after a failed or empty read the buffer is back in the pool, there
\* is one E_READ record per such read, and the listener goes on reading:
\* the process does not end.
C17_ReadFailureContinues ==
    listener.lastRead \in {"err", "zero"} =>
        /\ process = "running"
        /\ listener.pc \in {"get", "read"}
        /\ records[ErrRead] = listener.failed
        /\ \A b \in Buffers : bufPool[b].holder # "listener" \/ listener.pc = "read"

\* C40: the packet bytes reported for a panic are the bytes of the
\* datagram whose goroutine panicked: the goroutine's buffer is not in the
\* pool, nor with another read, before the panic record has been written.
C40_PanicReportsOwnDatagram ==
    \A w \in Workers :
        handlers[w].pc = "recover" =>
            /\ bufPool[handlers[w].buffer].holder = w
            /\ handlers[w].intact

----------------------------------------------------------------------------
(* Properties of the packets *)

\* C18: for every DHCPv6 message p, of any length and type, and every peer
\* address a, unwinding one layer of Encapsulate(p, a) gives back exactly
\* the bytes of p and the address a.
C18_UnwindInvertsEncapsulate ==
    pkt6.done =>
        /\ ~pkt6.enc.panic
        /\ ~pkt6.unw.panic /\ ~pkt6.unw.err
        /\ pkt6.unw.msg = pkt6.p
        /\ pkt6.unw.peer = pkt6.peer

\* C19: Encapsulate(p, a) is a relay-forward message: type 12, link-address
\* all zeros, peer-address a, one Relay Message option (code 9) whose length
\* is |p| and whose payload is p, and a hop count of p's hop count + 1 when
\* p is a relay message, 0 otherwise.
C19_EncapsulateLayout ==
    pkt6.done =>
        /\ ~pkt6.enc.panic
        /\ LET new == pkt6.enc.bytes
           IN  /\ Len(new) = 38 + Len(pkt6.p)
               /\ new[1] = 12
               /\ \A i \in 3..18 : new[i] = 0
               /\ SubSeq(new, 19, 34) = pkt6.peer
               /\ <<new[35], new[36]>> = <<0, 9>>
               /\ (new[37] * 256) + new[38] = Len(pkt6.p)
               /\ SubSeq(new, 39, Len(new)) = pkt6.p
               /\ new[2] = IF Len(pkt6.p) > 0 /\ pkt6.p[1] \in {12, 13}
                           THEN pkt6.p[2] + 1 ELSE 0

\* C20: the DHCPv4 packet forwarded to a backend is the received packet
\* with its hop count increased by exactly one and every other field
\* unchanged, for every received hop count in 0..255.
C20_V4HopsPlusOne ==
    pkt4.done =>
        /\ pkt4.forwarded.hops = pkt4.received.hops + 1
        /\ [pkt4.forwarded EXCEPT !.hops = 0] = [pkt4.received EXCEPT !.hops = 0]

----------------------------------------------------------------------------
(* Properties of the backend sockets *)

\* the sockets open to the server with this key
OpenTo(key) == {o \in sockets.open : o.key = key}

\* C24: after any sequence of server-list updates there is at most one open
\* backend socket per (address, port); an entry whose key was in the
\* previous list has that entry's socket, and a socket opened by the update
\* belongs to an entry whose key is new.
C24_OneSocketPerKey ==
    /\ \A s \in SockServers : Cardinality(OpenTo(ServerKey(s))) <= 1
    /\ \A i \in 1..Len(sockets.servers), j \in 1..Len(sockets.prev) :
           (ServerKey(sockets.prev[j]) = ServerKey(sockets.servers[i])
            /\ sockets.prev[j].conn # 0)
               => sockets.servers[i].conn = sockets.prev[j].conn

----------------------------------------------------------------------------
(* Properties of one DHCPServer *)

\* the writes of the sendTo under way, in order
Writes == SelectSeq(dsrv.send.did, LAMBDA e : e[1] = "write")
\* the sendTo under way dialed a socket after its first write
Redialed ==
    \E i, j \in 1..Len(dsrv.send.did) :
        /\ i < j
        /\ dsrv.send.did[i][1] = "write"
        /\ dsrv.send.did[j] = <<"dial", dsrv.send.did[j][2], TRUE>>

\* C32: sendTo makes at most two write attempts per packet: after a failed
\* first write it re-establishes the server's socket and writes exactly
\* once more, on the re-established socket; it reports failure only when
\* the reconnect fails or the second write also fails.
C32_RetryOnReestablishedSocket ==
    /\ Len(Writes) <= 2
    /\ Len(Writes) = 2 =>
         /\ ~Writes[1][3]
         /\ Redialed
         /\ Writes[2][2] # Writes[1][2]
    /\ (dsrv.send.pc = "done" /\ dsrv.send.result = "err") =>
         /\ Len(Writes) >= 1
         /\ \/ Len(Writes) = 2 /\ ~Writes[2][3]
            \/ dsrv.send.did[Len(dsrv.send.did)] = <<"dial", 0, FALSE>>

\* C33: when a list update removes a server its socket stays open until
\* freeConnTimeout has elapsed and is closed once it has: a send within
\* the timeout finds the socket open, and no socket of the server is open
\* (left open or re-opened) after the timeout.
C33_RemovedSocketClosedAtTimeout ==
    dsrv.origin = "removed" =>
        /\ (dsrv.timer = "pending" /\ dsrv.next > 0) => (dsrv.conn # 0 /\ dsrv.conn \in dsrv.open)
        /\ dsrv.timer = "fired" => dsrv.open = {}

\* C36: every socket opened for an override destination is closed once
\* freeConnTimeout has elapsed after the override was applied and is not
\* open afterwards, whatever the order of the close timer and the send.
C36_OverrideSocketClosedAtTimeout ==
    (dsrv.origin = "override" /\ dsrv.timer = "fired") => dsrv.open = {}

\* C34: a delayed close, set for a removed server or for the server of an
\* override, never closes a socket in use by a server of the current list
\* when the timer fires (the same server re-added, or its socket taken
\* over by a newer entry, before the timeout).
C34_TimerSparesCurrentSockets ==
    [][\A c \in sockets.timers :
          c \notin sockets'.timers =>
              /\ \A i \in 1..Len(sockets.servers) : sockets.servers[i].conn # c
              /\ sockets'.servers = sockets.servers
              /\ \A o \in sockets.open : o.id # c => o \in sockets'.open]_vars

\* the sockets that have been closed: dialed, no longer open, no timer left
ClosedSockets ==
    {c \in 1..sockets.next :
        /\ c \notin sockets.timers
        /\ \A o \in sockets.open \cup sockets.override : o.id # c}

\* a timer has closed the socket of a removed server and another the
\* socket of an override, and every server of the current list, one of
\* them with a key the previous list did not have and a socket dialed
\* after a closed one, has its socket open
C34_Witness ==
    /\ Cardinality(ClosedSockets) >= 2
    /\ Len(sockets.servers) = MaxSockLen
    /\ \A i \in 1..Len(sockets.servers) :
         [id |-> sockets.servers[i].conn, key |-> ServerKey(sockets.servers[i])] \in sockets.open
    /\ \E i \in 1..Len(sockets.servers), c \in ClosedSockets :
         /\ c < sockets.servers[i].conn
         /\ \A j \in 1..Len(sockets.prev) :
              ServerKey(sockets.prev[j]) # ServerKey(sockets.servers[i])

----------------------------------------------------------------------------
(* Properties of the file sourcer *)

\* C23: a host-list line that gives no explicit port yields a server whose
\* port is 67 when the sourcer runs for DHCPv4 and 547 when it runs for
\* DHCPv6 (stated on the files all of whose lines yield a server, where
\* server i comes from line i).
C23_DefaultPortByVersion ==
    (fsrc.done /\ Len(fsrc.servers) = Len(fsrc.file)) =>
        \A i \in 1..Len(fsrc.file) :
            (\A k \in 1..Len(fsrc.file[i]) : fsrc.file[i][k] # Colon) =>
                fsrc.servers[i].Port = IF fsrc.version = 4 THEN 67 ELSE 547

----------------------------------------------------------------------------
(* Properties of the handling of a datagram *)

\* how many times something of this kind was done with the datagram
Times(kind) == Cardinality({i \in 1..Len(raw.did) : raw.did[i][1] = kind})
\* the datagram was matched against overrides, given to the balancer, to
\* the throttle of the backends or to a backend socket
Forwarding == Times("override") + Times("balancer") + Times("throttle") + Times("sendTo") > 0
RelayReplReceived == raw.version = 6 /\ raw.dgram.parses /\ raw.dgram.type = "relay-repl"

\* C21, as stated: a received DHCPv6 relay-reply is never passed to
\* override or balancer selection and never sent to a backend server;
\* exactly one relay layer is removed and the inner message is written
\* once to the peer-address of the outer message on port 547.
C21_RelayReplUnwoundAndDelivered ==
    RelayReplReceived =>
        /\ ~Forwarding
        /\ raw.pc = "done" =>
             /\ raw.did[Len(raw.did)] = <<"write", "peerAddr:547">>
             /\ Times("decapsulate") = 1 /\ Times("write") = 1

\* C21, amended: outside server mode a received DHCPv6 relay-reply is
\* never passed to override or balancer selection and never sent to a
\* backend server; when it holds a relay message and the socket to the
\* peer-address can be opened, one layer is removed and the inner message
\* is written once to peerAddr:547 with no error record; otherwise nothing
\* is written and there is exactly one error record, E_PARSE (no message
\* inside) or E_CONN (no socket).
C21_RelayReplDeliveredOrDropped ==
    (RelayReplReceived /\ ~raw.server) =>
        /\ ~Forwarding
        /\ Times("handler") = 0
        /\ raw.pc = "done" =>
             /\ Times("decapsulate") = 1
             /\ IF ~raw.dgram.inner
                THEN raw.log = <<ErrParse>> /\ Times("write") = 0
                ELSE \/ raw.log = <<>> /\ Times("write") = 1
                                    /\ raw.did[Len(raw.did)] = <<"write", "peerAddr:547">>
                     \/ raw.log = <<ErrConnect>> /\ Times("write") = 0

\* a relay-reply has been unwound and written to the peer-address
C21_Witness ==
    /\ RelayReplReceived /\ ~raw.server /\ raw.pc = "done"
    /\ Times("write") = 1 /\ raw.log = <<>> /\ raw.delivered

\* C31: in relay mode every received datagram produces exactly one log
\* record, and that record is a success record if and only if the packet
\* was actually written to its destination (the backend's socket, or the
\* peer for a relay-reply); every failure is one error record and a drop.
C31_OneRecordSuccessIffWritten ==
    (~raw.server /\ raw.pc = "done") =>
        /\ Len(raw.log) + raw.success = 1
        /\ (raw.success = 1) <=> raw.delivered

\* C37: each request uses a single configuration snapshot for its whole
\* handling: the override table, the HostSourcer, the balancer and the
\* version used for one datagram all come from the same Config value, even
\* when SetConfig runs concurrently with the request.
C37_OneConfigPerRequest == Cardinality(raw.used) <= 1

\* C22: in server mode every parsed datagram is handed to the Handler and
\* nothing is forwarded: no override, no balancer, no backend socket, no
\* relay-reply unwinding, the list updater is not started, and a Handler
\* error yields an error record and no reply.
C22_ServerModeServes ==
    raw.server =>
        /\ ~raw.updating
        /\ ~Forwarding
        /\ Times("decapsulate") + Times("write") = 0
        /\ (raw.pc = "done" /\ raw.dgram.parses) =>
             /\ Times("handler") = 1
             /\ \/ raw.log = <<>> /\ Times("reply") = 1
                \/ raw.log = <<HandlerErrorType>> /\ Times("reply") = 0

\* a Handler error in server mode: one error record, no reply
C22_Witness ==
    /\ raw.server /\ raw.pc = "done" /\ raw.dgram.parses
    /\ raw.log = <<HandlerErrorType>> /\ Times("handler") = 1

\* C29: before a received datagram is parsed the ingress throttle keyed by
\* the sender's IP is consulted; when it denies, the datagram is dropped
\* with an E_CONN_RATE record and is neither parsed, nor matched against
\* overrides, nor forwarded.
C29_IngressThrottleBeforeParse ==
    /\ \A i \in 1..Len(raw.did) :
           raw.did[i][1] = "parse" =>
               \E j \in 1..(i - 1) : raw.did[j] = <<"throttle", "peer.IP">>
    /\ (\E k \in 1..Len(raw.log) : raw.log[k] = ErrConnRate) =>
           Times("parse") + Times("override") + Times("balancer") + Times("sendTo") = 0

\* C30: a datagram that fails to parse is dropped with exactly one error
\* record, of kind E_PARSE; no server is selected and nothing is sent.
C30_ParseFailureIsOneParseRecord ==
    ~raw.dgram.parses =>
        /\ ~Forwarding
        /\ Times("handler") + Times("reply") + Times("write") = 0
        /\ raw.pc = "done" => raw.log = <<ErrParse>>

====
